---- MODULE Spec2Model ----
(***************************************************************************)
(* Model of the lox password manager's vault storage engine:               *)
(* key derivation, Fernet authenticated encryption, the on-disk vault file *)
(* layout, the Vault file operations and the VaultManager CRUD operations. *)
(*                                                                         *)
(* Representation.  A file, a salt, a key and a Fernet token are sequences *)
(* of "cells"; a cell is a sequence of integers.  A plain byte n is the    *)
(* one-element cell <<n>>.  Cryptographic outputs are symbolic cells that  *)
(* record what they were computed from, so PBKDF2, AES and HMAC are ideal  *)
(* (injective) functions of their inputs.                                  *)
(***************************************************************************)
EXTENDS Integers, Sequences, FiniteSets, TLC

(***************************************************************************)
(* Bounds of the model.                                                    *)
(***************************************************************************)
MaxSaves == 2          \* number of times a behaviour writes the vault file

(***************************************************************************)
(* Program constants.                                                      *)
(***************************************************************************)
SALT_LENGTH == 16
FERNET_VERSION == 128           \* 0x80, first byte of every Fernet token
PAD_CHAR == 61                  \* '=' : base64 padding character

\* The first integer of a symbolic cell tells what the cell is.
B64_TAG == <<64>>               \* a base64 symbol of an encoded token
AES_TAG == <<65>>               \* AES-CBC output
MAC_TAG == <<66>>               \* an HMAC-SHA256 tag
KDF_TAG == <<67>>               \* PBKDF2 output

Byte(n) == <<n>>

\* The salt argument of derive_key when the caller passes no salt.
None == << <<-1>> >>

(***************************************************************************)
(* Input universes.                                                        *)
(***************************************************************************)
MasterPasswords == {"correct-horse-battery-staple", "wrong_password"}
Names == {"github", "email"}
Passwords == {"Tr0ub4dor&3", "hunter2"}

\* Every string the model turns into bytes, in a fixed order: str.encode
\* maps a string to its position, bytes.decode maps the position back.
Utf8Table ==
    << "{", "}", "services", "metadata", "version", "1.0", "password",
       "username", "github", "email", "Tr0ub4dor&3", "hunter2", "user1",
       "correct-horse-battery-staple", "wrong_password", "not json" >>

encode(s) == CHOOSE i \in 1..Len(Utf8Table) : Utf8Table[i] = s

CanDecode(b) == Len(b) = 1 /\ b[1] \in 1..Len(Utf8Table)

decode(b) == Utf8Table[b[1]]

\* data.encode("utf-8") of a text (a sequence of string tokens)
encode_text(text) == [i \in 1..Len(text) |-> Byte(encode(text[i]))]

\* Concatenation of cells into one cell, each prefixed by its length.
RECURSIVE Flatten(_)
Flatten(cells) ==
    IF cells = <<>> THEN <<>>
    ELSE <<Len(Head(cells))>> \o Head(cells) \o Flatten(Tail(cells))

(***************************************************************************)
(* key_derivation.py                                                       *)
(***************************************************************************)
\* os.urandom(n) when the entropy source stands at r: n bytes never
\* produced before.
urandom(n, r) == [i \in 1..n |-> Byte(r)]

\* PBKDF2-HMAC-SHA256 followed by base64.urlsafe_b64encode: an injective
\* function of (password, salt).
PBKDF2HMAC(password_bytes, salt) ==
    KDF_TAG \o password_bytes \o Flatten(salt)

derive_key_reuses_salt(master_password, salt, r) ==
    LET s == IF salt = None THEN urandom(SALT_LENGTH, 0) ELSE salt
    IN  [key |-> PBKDF2HMAC(Byte(encode(master_password)), s), salt |-> s]

derive_key_ignores_password(master_password, salt, r) ==
    LET s == IF salt = None THEN urandom(SALT_LENGTH, r) ELSE salt
    IN  [key |-> PBKDF2HMAC(Byte(0), s), salt |-> s]

\* derive_key(master_password, salt=None) -> (key, salt); r is the state of
\* the entropy source.
derive_key(master_password, salt, r) ==
    LET s == IF salt = None THEN urandom(SALT_LENGTH, r) ELSE salt
    IN  [key |-> PBKDF2HMAC(Byte(encode(master_password)), s), salt |-> s]

(***************************************************************************)
(* cryptography.fernet, as used by encryption.py                           *)
(***************************************************************************)
\* HMAC-SHA256 over version || timestamp || IV || ciphertext.
HMAC(key, body) == MAC_TAG \o key \o Flatten(body)

\* One AES-CBC output cell for one plaintext byte.
AES(key, iv, b) == AES_TAG \o b \o iv \o key

\* base64.urlsafe_b64encode: one symbol per raw cell, then '=' padding up to
\* a whole group of three.
PadCount(n) == (3 - (n % 3)) % 3

urlsafe_b64encode(raw) ==
    [i \in 1..Len(raw) |-> B64_TAG \o raw[i]]
        \o [i \in 1..PadCount(Len(raw)) |-> Byte(PAD_CHAR)]

\* The characters of the URL-safe alphabet among the plain bytes:
\* 0-9, A-Z, a-z, '-' and '_'.
B64Alphabet == (48..57) \cup (65..90) \cup (97..122) \cup {45, 95}

IsB64Symbol(c) ==
    \/ Len(c) > 1 /\ c[1] = B64_TAG[1]
    \/ Len(c) = 1 /\ c[1] \in B64Alphabet

\* The raw cell a symbol decodes to.
B64Value(c) == IF Len(c) > 1 THEN Tail(c) ELSE c

\* base64.urlsafe_b64decode (binascii.a2b_base64, non-strict): characters
\* outside the alphabet are skipped; a complete pad sequence ends the
\* decoding and whatever follows it is ignored; data that ends inside a
\* group without its padding is an error.
\* st = [out, pos, pads, done]
RECURSIVE B64Scan(_, _, _)
B64Scan(text, i, st) ==
    IF i > Len(text) \/ st.done THEN st
    ELSE LET c == text[i] IN
         IF c = Byte(PAD_CHAR)
         THEN IF st.pos >= 1 /\ st.pos + st.pads + 1 >= 3
              THEN [st EXCEPT !.done = TRUE, !.pos = 0]
              ELSE B64Scan(text, i + 1, [st EXCEPT !.pads = @ + 1])
         ELSE IF IsB64Symbol(c)
         THEN B64Scan(text, i + 1,
                      [st EXCEPT !.out = Append(@, B64Value(c)),
                                 !.pos = (@ + 1) % 3,
                                 !.pads = 0])
         ELSE B64Scan(text, i + 1, st)

urlsafe_b64decode(text) ==
    LET st == B64Scan(text, 1, [out |-> <<>>, pos |-> 0, pads |-> 0,
                                done |-> FALSE])
    IN  [ok |-> st.pos = 0, data |-> st.out]

\* Fernet(key).encrypt(data): version, timestamp, IV, ciphertext, HMAC,
\* base64-encoded.  iv is a fresh os.urandom value.
Fernet_encrypt(data, key, iv) ==
    LET body == <<Byte(FERNET_VERSION), Byte(0), iv>>
                    \o [i \in 1..Len(data) |-> AES(key, iv, data[i])]
    IN  urlsafe_b64encode(Append(body, HMAC(key, body)))

\* Fernet(key).decrypt(token): InvalidToken (ok = FALSE) unless the token
\* decodes, starts with the version byte and carries the HMAC of its body
\* under this key.
Fernet_decrypt(token, key) ==
    LET d == urlsafe_b64decode(token)
        n == Len(d.data)
    IN  IF ~d.ok \/ n < 4 \/ d.data[1] # Byte(FERNET_VERSION)
        THEN [ok |-> FALSE, data |-> <<>>]
        ELSE LET body == SubSeq(d.data, 1, n - 1) IN
             IF d.data[n] # HMAC(key, body)
             THEN [ok |-> FALSE, data |-> <<>>]
             ELSE [ok |-> TRUE,
                   data |-> [i \in 1..(n - 4) |-> <<body[i + 3][2]>>]]

(***************************************************************************)
(* encryption.py                                                           *)
(***************************************************************************)
encrypt_data(data, key, iv) == Fernet_encrypt(encode_text(data), key, iv)

\* decrypt_data: every failure (InvalidToken, UnicodeDecodeError) is raised
\* as DecryptionError.
decrypt_data(encrypted_data, key) ==
    LET p == Fernet_decrypt(encrypted_data, key) IN
    IF ~p.ok THEN [exc |-> "DecryptionError", text |-> <<>>]
    ELSE IF \E i \in 1..Len(p.data) : ~CanDecode(p.data[i])
    THEN [exc |-> "DecryptionError", text |-> <<>>]
    ELSE [exc |-> "None",
          text |-> [i \in 1..Len(p.data) |-> decode(p.data[i])]]

(***************************************************************************)
(* Vault values and their JSON text.  A Python dict is a function; the     *)
(* services dict is kept as the sequence of its (name, record) items in    *)
(* insertion order, which is also the order json.dumps writes them in.     *)
(***************************************************************************)
METADATA == [version |-> "1.0"]

\* Returned in the value field of a result that carries no vault.
NoValue == [none |-> "None"]

Tok(t, i) == IF i \in 1..Len(t) THEN t[i] ELSE "<eof>"

IsStringTok(s) == s \notin {"{", "}", "<eof>", "not json"}

DumpRecord(rec) ==
    <<"{", "password", rec.password>>
        \o (IF "username" \in DOMAIN rec THEN <<"username", rec.username>>
            ELSE <<>>)
        \o <<"}">>

RECURSIVE DumpItems(_)
DumpItems(items) ==
    IF items = <<>> THEN <<>>
    ELSE <<Head(items)[1]>> \o DumpRecord(Head(items)[2])
             \o DumpItems(Tail(items))

json_dumps_drops_metadata(data) ==
    <<"{">>
        \o (IF "services" \in DOMAIN data
            THEN <<"services", "{">> \o DumpItems(data.services) \o <<"}">>
            ELSE <<>>)
        \o <<"}">>

\* json.dumps(data, indent=2)
json_dumps(data) ==
    <<"{">>
        \o (IF "services" \in DOMAIN data
            THEN <<"services", "{">> \o DumpItems(data.services) \o <<"}">>
            ELSE <<>>)
        \o (IF "metadata" \in DOMAIN data
            THEN <<"metadata", "{", "version", data.metadata.version, "}">>
            ELSE <<>>)
        \o <<"}">>

ParseFail(i) == [ok |-> FALSE, val |-> <<>>, next |-> i]

\* One service record starting at token i.
ParseRecord(t, i) ==
    IF Tok(t, i) = "{" /\ Tok(t, i + 1) = "password"
            /\ IsStringTok(Tok(t, i + 2))
    THEN IF Tok(t, i + 3) = "}"
         THEN [ok |-> TRUE, val |-> <<[password |-> Tok(t, i + 2)]>>,
               next |-> i + 4]
         ELSE IF Tok(t, i + 3) = "username" /\ IsStringTok(Tok(t, i + 4))
                     /\ Tok(t, i + 5) = "}"
         THEN [ok |-> TRUE,
               val |-> <<[password |-> Tok(t, i + 2),
                          username |-> Tok(t, i + 4)]>>,
               next |-> i + 6]
         ELSE ParseFail(i)
    ELSE ParseFail(i)

\* The items of the services object from token i up to its closing brace.
RECURSIVE ParseItems(_, _, _)
ParseItems(t, i, acc) ==
    IF Tok(t, i) = "}" THEN [ok |-> TRUE, val |-> acc, next |-> i + 1]
    ELSE IF ~IsStringTok(Tok(t, i)) THEN ParseFail(i)
    ELSE LET r == ParseRecord(t, i + 1) IN
         IF ~r.ok THEN ParseFail(i)
         ELSE ParseItems(t, r.next, Append(acc, <<Tok(t, i), r.val[1]>>))

\* The metadata member starting at token i.
ParseMeta(t, i) ==
    IF Tok(t, i) = "metadata" /\ Tok(t, i + 1) = "{"
            /\ Tok(t, i + 2) = "version" /\ IsStringTok(Tok(t, i + 3))
            /\ Tok(t, i + 4) = "}"
    THEN [ok |-> TRUE, val |-> <<[version |-> Tok(t, i + 3)]>>,
          next |-> i + 5]
    ELSE ParseFail(i)

\* json.loads(text): ok = FALSE stands for json.JSONDecodeError.
json_loads(t) ==
    IF Tok(t, 1) # "{" THEN [ok |-> FALSE, value |-> NoValue]
    ELSE IF Tok(t, 2) = "services" /\ Tok(t, 3) = "{"
    THEN LET s == ParseItems(t, 4, <<>>) IN
         IF ~s.ok THEN [ok |-> FALSE, value |-> NoValue]
         ELSE IF Tok(t, s.next) = "}" /\ Len(t) = s.next
         THEN [ok |-> TRUE, value |-> [services |-> s.val]]
         ELSE LET m == ParseMeta(t, s.next) IN
              IF m.ok /\ Tok(t, m.next) = "}" /\ Len(t) = m.next
              THEN [ok |-> TRUE,
                    value |-> [services |-> s.val, metadata |-> m.val[1]]]
              ELSE [ok |-> FALSE, value |-> NoValue]
    ELSE LET m == ParseMeta(t, 2) IN
         IF m.ok /\ Tok(t, m.next) = "}" /\ Len(t) = m.next
         THEN [ok |-> TRUE, value |-> [metadata |-> m.val[1]]]
         ELSE [ok |-> FALSE, value |-> NoValue]

(***************************************************************************)
(* local_vault.py: the vault file                                          *)
(***************************************************************************)
MSG_DECRYPT ==
    "Failed to decrypt vault. The master password may be incorrect or the file is corrupted."
MSG_UNEXPECTED == "Unexpected error while loading vault: "
MSG_NOT_FOUND == "Vault file not found. Please initialize first."

\* n.to_bytes(4, "big")
to_bytes4(n) ==
    << Byte((n \div 16777216) % 256), Byte((n \div 65536) % 256),
       Byte((n \div 256) % 256), Byte(n % 256) >>

\* int.from_bytes(b, "big") of the at most four bytes read
RECURSIVE from_bytes(_)
from_bytes(b) ==
    IF b = <<>> THEN 0
    ELSE from_bytes(SubSeq(b, 1, Len(b) - 1)) * 256 + b[Len(b)][1]

\* f.read(n) at offset pos: at most n cells, fewer at the end of the file.
read(f, pos, n) ==
    SubSeq(f, pos + 1, IF pos + n <= Len(f) THEN pos + n ELSE Len(f))

\* The three writes of save_vault, in order.
SaveWrites(data, master_password, r) ==
    LET k == derive_key(master_password, None, r)
        encrypted_data == encrypt_data(json_dumps(data), k.key, Byte(r + 1))
    IN  << to_bytes4(Len(k.salt)), k.salt, encrypted_data >>

FileBytes(data, master_password, r) ==
    LET w == SaveWrites(data, master_password, r) IN w[1] \o w[2] \o w[3]

\* The salt and the ciphertext region of a well-formed file.
SaltOf(f) == read(f, 4, from_bytes(read(f, 0, 4)))
CiphertextOf(f) ==
    LET n == from_bytes(read(f, 0, 4)) IN read(f, 4 + n, Len(f))

\* A load_vault that answers a file it cannot decrypt with an empty vault.
LoadVault_empty_on_failure(present, f, master_password) ==
    IF ~present
    THEN [exc |-> "VaultNotFoundError", msg |-> MSG_NOT_FOUND,
          value |-> NoValue]
    ELSE LET salt_length == from_bytes(read(f, 0, 4))
             salt == read(f, 4, salt_length)
             encrypted_data == read(f, 4 + Len(salt), Len(f))
             k == derive_key(master_password, salt, 0)
             d == decrypt_data(encrypted_data, k.key)
         IN  IF d.exc # "None"
             THEN [exc |-> "None", msg |-> "",
                   value |-> [services |-> <<>>, metadata |-> METADATA]]
             ELSE LET j == json_loads(d.text) IN
                  IF ~j.ok
                  THEN [exc |-> "VaultOperationError", msg |-> MSG_DECRYPT,
                        value |-> NoValue]
                  ELSE [exc |-> "None", msg |-> "", value |-> j.value]

\* load_vault(master_password) on a file: the exception it raises with its
\* message, or the vault value it returns.
LoadVault(present, f, master_password) ==
    IF ~present
    THEN [exc |-> "VaultNotFoundError", msg |-> MSG_NOT_FOUND,
          value |-> NoValue]
    ELSE LET salt_length == from_bytes(read(f, 0, 4))
             salt == read(f, 4, salt_length)
             encrypted_data == read(f, 4 + Len(salt), Len(f))
             k == derive_key(master_password, salt, 0)
             d == decrypt_data(encrypted_data, k.key)
         IN  IF d.exc # "None"
             THEN \* DecryptionError is not a ValueError, KeyError or
                  \* TypeError: the second except clause handles it
                  [exc |-> "VaultOperationError", msg |-> MSG_UNEXPECTED,
                   value |-> NoValue]
             ELSE LET j == json_loads(d.text) IN
                  IF ~j.ok
                  THEN [exc |-> "VaultOperationError", msg |-> MSG_DECRYPT,
                        value |-> NoValue]
                  ELSE [exc |-> "None", msg |-> "", value |-> j.value]

(***************************************************************************)
(* vault_manager.py: operations on the decrypted, in-memory vault dict     *)
(***************************************************************************)
\* vault_data.get("services", {})
Services(vault) ==
    IF "services" \in DOMAIN vault THEN vault.services ELSE <<>>

\* name in d
Has(items, name) == \E i \in 1..Len(items) : items[i][1] = name

\* d[name]
Get(items, name) ==
    items[CHOOSE i \in 1..Len(items) : items[i][1] = name][2]

\* d.keys()
Keys(items) == [i \in 1..Len(items) |-> items[i][1]]

\* The dict with its "services" entry set to items.
WithServices(vault, items) ==
    IF "metadata" \in DOMAIN vault
    THEN [services |-> items, metadata |-> vault.metadata]
    ELSE [services |-> items]

\* Equality of two dicts, which does not depend on the order of the items.
SameItems(a, b) ==
    /\ \A i \in 1..Len(a) : Has(b, a[i][1]) /\ Get(b, a[i][1]) = a[i][2]
    /\ \A i \in 1..Len(b) : Has(a, b[i][1])

DictEq(v, w) ==
    /\ DOMAIN v = DOMAIN w
    /\ "services" \in DOMAIN v => SameItems(v.services, w.services)
    /\ "metadata" \in DOMAIN v => v.metadata = w.metadata

MSG_EXISTS == "Service already exists in vault."
MSG_MISSING == "Service not found in vault."

add_password_entry_overwrites(name, password, vault) ==
    LET items == Services(vault) IN
    [exc |-> "None", msg |-> "",
     vault |-> WithServices(vault,
         IF Has(items, name)
         THEN [i \in 1..Len(items) |->
                  IF items[i][1] = name
                  THEN <<name, [password |-> password]>> ELSE items[i]]
         ELSE Append(items, <<name, [password |-> password]>>))]

\* add_password_entry(name, password, vault_data): the exception raised and
\* the dict afterwards.
add_password_entry(name, password, vault) ==
    IF Has(Services(vault), name)
    THEN [exc |-> "VaultError", msg |-> MSG_EXISTS, vault |-> vault]
    ELSE [exc |-> "None", msg |-> "",
          vault |-> WithServices(vault,
              Append(Services(vault), <<name, [password |-> password]>>))]

update_password_entry_upserts(name, password, vault) ==
    LET items == Services(vault) IN
    IF ~Has(items, name)
    THEN [exc |-> "None", msg |-> "",
          vault |-> WithServices(vault,
              Append(items, <<name, [password |-> password]>>))]
    ELSE [exc |-> "None", msg |-> "",
          vault |-> WithServices(vault,
              [i \in 1..Len(items) |->
                  IF items[i][1] = name
                  THEN <<name, [items[i][2] EXCEPT !.password = password]>>
                  ELSE items[i]])]

\* update_password_entry(name, password, vault_data)
update_password_entry(name, password, vault) ==
    LET items == Services(vault) IN
    IF ~Has(items, name)
    THEN [exc |-> "VaultError", msg |-> MSG_MISSING, vault |-> vault]
    ELSE [exc |-> "None", msg |-> "",
          vault |-> [vault EXCEPT !.services =
              [i \in 1..Len(items) |->
                  IF items[i][1] = name
                  THEN <<name, [items[i][2] EXCEPT !.password = password]>>
                  ELSE items[i]]]]

\* The items without the one called name.
RECURSIVE Without(_, _)
Without(items, name) ==
    IF items = <<>> THEN <<>>
    ELSE IF Head(items)[1] = name THEN Without(Tail(items), name)
    ELSE <<Head(items)>> \o Without(Tail(items), name)

delete_password_entry_always_true(name, vault) ==
    IF Has(Services(vault), name)
    THEN [ret |-> "True",
          vault |-> [vault EXCEPT !.services = Without(@, name)]]
    ELSE [ret |-> "True", vault |-> vault]

\* delete_password_entry(name, vault_data)
delete_password_entry(name, vault) ==
    IF Has(Services(vault), name)
    THEN [ret |-> "True",
          vault |-> [vault EXCEPT !.services = Without(@, name)]]
    ELSE [ret |-> "False", vault |-> vault]

\* get_service_names(vault_data)
get_service_names(vault) == Keys(Services(vault))

get_password_raises_missing(service_name, vault) ==
    LET items == Services(vault) IN
    IF ~Has(items, service_name) THEN [exc |-> "KeyError", ret |-> "None"]
    ELSE [exc |-> "None", ret |-> Get(items, service_name).password]

\* get_password(service_name, vault_data): a record is a non-empty dict,
\* hence true.
get_password(service_name, vault) ==
    LET items == Services(vault) IN
    IF ~Has(items, service_name) THEN [exc |-> "None", ret |-> "None"]
    ELSE LET service == Get(items, service_name) IN
         [exc |-> "None",
          ret |-> IF "password" \in DOMAIN service THEN service.password
                  ELSE "None"]

(***************************************************************************)
(* State                                                                   *)
(***************************************************************************)
VARIABLES
    exists,       \* vault_path.exists()
    file,         \* the cells of the vault file (<<>> when absent)
    entropy,      \* state of os.urandom: the next value it produces
    vault_data,   \* the vault dict the caller holds in memory
    result,       \* outcome of the last operation
    disk,         \* history: where the file's content comes from, and
                  \* whether the save that wrote it replaced a file saved
                  \* from the same value under the same passphrase
    keyring_password,  \* the keyring entry "<service_name>-credentials" of
                       \* the current user (NoValue when there is none)
    env_file,     \* content of ~/.config/<service_name>/credentials.json
                  \* (NoValue when the file does not exist)
    environ,      \* os.environ, the three AWS variables
    used_backend, \* _used_backend of each credential manager instance
    outcome,      \* outcome of the last credential operation
    invocation,   \* the command runs in progress: for each, how far it is,
                  \* the vault dict it holds and the file it loaded it from
    table         \* the items of the DynamoDB table, in the order of their
                  \* put_item

vaultvars == <<exists, file, entropy, vault_data, result, disk>>

credvars == <<keyring_password, env_file, environ, used_backend, outcome>>

runvars == <<invocation, table>>

vars == <<exists, file, entropy, vault_data, result, disk,
          keyring_password, env_file, environ, used_backend, outcome,
          invocation, table>>

EMPTY_VAULT == [services |-> <<>>, metadata |-> METADATA]

\* Dicts a caller may hold before the first load: the empty vault, one
\* without a "services" entry, and one without "metadata" whose record has
\* a username.
InitialDicts ==
    { EMPTY_VAULT,
      [metadata |-> METADATA],
      [services |-> << <<"github", [password |-> "hunter2",
                                     username |-> "user1"]>> >>] }

Res(op, pw, name, exc, msg, ret, value, calls) ==
    [op |-> op, pw |-> pw, name |-> name, exc |-> exc, msg |-> msg,
     ret |-> ret, value |-> value, calls |-> calls]

Disk(origin, data, pw, resaved) ==
    [origin |-> origin, data |-> data, pw |-> pw, resaved |-> resaved]

Absent == Disk("absent", NoValue, "", FALSE)

\* StorageBackend
KEYRING == "keyring"
ENV_FILE == "env_file"
FALLBACK == "fallback"

\* CredentialManager._backend_preference
_backend_preference == <<KEYRING, ENV_FILE, FALLBACK>>

\* The two credential managers of the repository; both use the service
\* name "LoxPasswordManager", hence the same keyring entry and file.
LEGACY == "CredentialManager"
SERVICE == "AWSCredentialService"
Managers == {LEGACY, SERVICE}

\* os.environ without the AWS variables.
ENVIRON_UNSET ==
    [AWS_ACCESS_KEY_ID |-> "None", AWS_SECRET_ACCESS_KEY |-> "None",
     AWS_DEFAULT_REGION |-> "None"]

Out(op, manager, exc, ret, value, calls) ==
    [op |-> op, manager |-> manager, exc |-> exc, ret |-> ret,
     value |-> value, calls |-> calls]

\* Two command runs may be in progress at a time.
Runs == {1, 2}

\* A run that has not started: it holds no vault dict and has seen no file.
NotStarted ==
    [pc |-> "start", command |-> "", name |-> "", pw |-> "", data |-> NoValue,
     seen |-> <<>>, order |-> 0, code |-> "None"]

Init ==
    /\ exists = FALSE
    /\ file = <<>>
    /\ entropy = 1
    /\ vault_data \in InitialDicts
    /\ result = Res("start", "", "", "None", "", "None", NoValue, {})
    /\ disk = Absent
    /\ keyring_password = NoValue
    /\ env_file = NoValue
    /\ environ = ENVIRON_UNSET
    /\ used_backend = [m \in Managers |-> "None"]
    /\ outcome = Out("start", "", "None", "None", NoValue, <<>>)
    /\ invocation = [r \in Runs |-> NotStarted]
    /\ table = <<>>

CanSave == entropy < 2 * MaxSaves

(***************************************************************************)
(* Vault (local_vault.py)                                                  *)
(***************************************************************************)
\* The effect of a save_vault that runs to completion.
Written(data, master_password) ==
    /\ exists' = TRUE
    /\ file' = FileBytes(data, master_password, entropy)
    /\ entropy' = entropy + 2
    /\ disk' = Disk("save", data, master_password,
                     /\ disk.origin = "save"
                     /\ disk.data = data
                     /\ disk.pw = master_password)

save_vault(master_password) ==
    /\ CanSave
    /\ Written(vault_data, master_password)
    /\ result' = Res("save_vault", master_password, "", "None", "", "True",
                     NoValue, {})
    /\ UNCHANGED vault_data
    /\ UNCHANGED credvars
    /\ UNCHANGED runvars

initialize_vault_overwrites(master_password) ==
    /\ CanSave
    /\ Written(EMPTY_VAULT, master_password)
    /\ result' = Res("initialize_vault", master_password, "", "None", "",
                     "True", NoValue, {"save_vault"})
    /\ UNCHANGED vault_data
    /\ UNCHANGED credvars
    /\ UNCHANGED runvars

initialize_vault(master_password) ==
    /\ IF exists
       THEN /\ result' = Res("initialize_vault", master_password, "", "None",
                             "", "False", NoValue, {})
            /\ UNCHANGED <<exists, file, entropy, disk>>
       ELSE /\ CanSave
            /\ Written(EMPTY_VAULT, master_password)
            /\ result' = Res("initialize_vault", master_password, "", "None",
                             "", "True", NoValue, {"save_vault"})
    /\ UNCHANGED vault_data
    /\ UNCHANGED credvars
    /\ UNCHANGED runvars

load_vault(master_password) ==
    \E r \in {LoadVault(exists, file, master_password)} :
    /\ result' = Res("load_vault", master_password, "", r.exc, r.msg,
                     IF r.exc = "None" THEN "value" ELSE "None", r.value, {})
    /\ vault_data' = IF r.exc = "None" THEN r.value ELSE vault_data
    /\ UNCHANGED <<exists, file, entropy, disk>>
    /\ UNCHANGED credvars
    /\ UNCHANGED runvars

get_encrypted_vault ==
    /\ result' = IF ~exists
                 THEN Res("get_encrypted_vault", "", "", "VaultNotFoundError",
                          MSG_NOT_FOUND, "None", NoValue, {})
                 ELSE Res("get_encrypted_vault", "", "", "None", "", "bytes",
                          NoValue, {})
    /\ UNCHANGED <<exists, file, entropy, vault_data, disk>>
    /\ UNCHANGED credvars
    /\ UNCHANGED runvars

delete_vault ==
    /\ result' = Res("delete_vault", "", "", "None", "",
                     IF exists THEN "True" ELSE "False", NoValue, {})
    /\ exists' = FALSE
    /\ file' = <<>>
    /\ disk' = Absent
    /\ UNCHANGED <<entropy, vault_data>>
    /\ UNCHANGED credvars
    /\ UNCHANGED runvars

(***************************************************************************)
(* VaultManager (vault_manager.py)                                         *)
(***************************************************************************)
MSG_NO_VAULT == "No vault exists. Use 'lox init' to create one."
MSG_LOAD_FAILED == "Failed to load vault: "

get_vault_data_wraps_missing(present, f, master_password) ==
    LET r == LoadVault(present, f, master_password) IN
    IF r.exc # "None"
    THEN [exc |-> "VaultOperationError", msg |-> MSG_LOAD_FAILED,
          value |-> NoValue]
    ELSE r

\* get_vault_data(master_password): the existence check, then load_vault
\* with every exception re-raised as VaultOperationError.
GetVaultData(present, f, master_password) ==
    IF ~present
    THEN [exc |-> "VaultNotFoundError", msg |-> MSG_NO_VAULT,
          value |-> NoValue]
    ELSE LET r == LoadVault(present, f, master_password) IN
         IF r.exc # "None"
         THEN [exc |-> "VaultOperationError", msg |-> MSG_LOAD_FAILED,
               value |-> NoValue]
         ELSE r

get_vault_data(master_password) ==
    \E r \in {GetVaultData(exists, file, master_password)} :
    /\ result' = Res("get_vault_data", master_password, "", r.exc, r.msg,
                     IF r.exc = "None" THEN "value" ELSE "None", r.value,
                     IF exists THEN {"load_vault"} ELSE {})
    /\ vault_data' = IF r.exc = "None" THEN r.value ELSE vault_data
    /\ UNCHANGED <<exists, file, entropy, disk>>
    /\ UNCHANGED credvars
    /\ UNCHANGED runvars

AddPasswordEntry(name, password) ==
    LET r == add_password_entry(name, password, vault_data) IN
    /\ result' = Res("add_password_entry", password, name, r.exc, r.msg,
                     "None", NoValue, {})
    /\ vault_data' = r.vault
    /\ UNCHANGED <<exists, file, entropy, disk>>
    /\ UNCHANGED credvars
    /\ UNCHANGED runvars

UpdatePasswordEntry(name, password) ==
    LET r == update_password_entry(name, password, vault_data) IN
    /\ result' = Res("update_password_entry", password, name, r.exc, r.msg,
                     "None", NoValue, {})
    /\ vault_data' = r.vault
    /\ UNCHANGED <<exists, file, entropy, disk>>
    /\ UNCHANGED credvars
    /\ UNCHANGED runvars

DeletePasswordEntry(name) ==
    LET r == delete_password_entry(name, vault_data) IN
    /\ result' = Res("delete_password_entry", "", name, "None", "", r.ret,
                     NoValue, {})
    /\ vault_data' = r.vault
    /\ UNCHANGED <<exists, file, entropy, disk>>
    /\ UNCHANGED credvars
    /\ UNCHANGED runvars

GetPassword(service_name) ==
    LET r == get_password(service_name, vault_data) IN
    /\ result' = Res("get_password", "", service_name, r.exc, "", r.ret,
                     NoValue, {})
    /\ UNCHANGED <<exists, file, entropy, vault_data, disk>>
    /\ UNCHANGED credvars
    /\ UNCHANGED runvars

GetServiceNames ==
    /\ result' = Res("get_service_names", "", "", "None", "", "list",
                     [list |-> get_service_names(vault_data)], {})
    /\ UNCHANGED <<exists, file, entropy, vault_data, disk>>
    /\ UNCHANGED credvars
    /\ UNCHANGED runvars

(***************************************************************************)
(* Writes to the vault file other than a completed save_vault              *)
(***************************************************************************)
\* save_vault cut short by the end of the process: open(path, "wb") has
\* truncated the file and the first k of the three writes have reached it.
SaveInterrupted(master_password, k) ==
    LET w == SaveWrites(vault_data, master_password, entropy) IN
    /\ CanSave
    /\ exists' = TRUE
    /\ file' = (IF k >= 1 THEN w[1] ELSE <<>>) \o (IF k >= 2 THEN w[2] ELSE <<>>)
    /\ entropy' = entropy + 2
    /\ disk' = Disk("partial", NoValue, "", FALSE)
    /\ result' = Res("save_vault interrupted", "", "",
                     "KeyboardInterrupt", "", "None", NoValue, {})
    /\ UNCHANGED vault_data
    /\ UNCHANGED credvars
    /\ UNCHANGED runvars

\* A vault file written elsewhere whose plaintext is not JSON.
NotJsonBlob ==
    LET k == derive_key("correct-horse-battery-staple", None, 0) IN
    to_bytes4(Len(k.salt)) \o k.salt
        \o encrypt_data(<<"not json">>, k.key, Byte(0))

Blobs == {NotJsonBlob}

sync_replace_local_file_content(cloud_bytes_content) ==
    /\ exists' = TRUE
    /\ file' = cloud_bytes_content
    /\ disk' = Disk("sync", NoValue, "", FALSE)
    /\ result' = Res("sync_replace_local_file_content", "", "", "None", "",
                     "True", NoValue, {})
    /\ UNCHANGED <<entropy, vault_data>>
    /\ UNCHANGED credvars
    /\ UNCHANGED runvars

\* "garbage_data": whole groups of alphabet characters; and a newline, which
\* is outside the alphabet.
GARBAGE_DATA == <<Byte(103), Byte(97), Byte(114)>>
NEWLINE == <<Byte(10)>>
Garbage == {GARBAGE_DATA, NEWLINE}

\* Bytes appended to a saved vault file by something other than lox.
AppendGarbage(g) ==
    /\ exists
    /\ disk.origin = "save"
    /\ file' = file \o g
    /\ disk' = [disk EXCEPT !.origin = "appended"]
    /\ result' = Res("append", "", "", "None", "", "None", NoValue, {})
    /\ UNCHANGED <<exists, entropy, vault_data>>
    /\ UNCHANGED credvars
    /\ UNCHANGED runvars

\* Positions of the ciphertext region holding base64 symbols of the token.
SymbolPositions(f) ==
    {i \in (4 + SALT_LENGTH + 1)..Len(f) : Len(f[i]) > 1 /\ f[i][1] = B64_TAG[1]}

\* The positions the model alters: the first symbol of the token and its
\* last one, which carries the HMAC.
AlterPositions(f) ==
    LET S == SymbolPositions(f) IN
    {i \in S : \A j \in S : i <= j} \cup {i \in S : \A j \in S : i >= j}

\* One symbol of the ciphertext region replaced by a different symbol.
AlterCiphertext(i) ==
    /\ exists
    /\ disk.origin = "save"
    /\ i \in AlterPositions(file)
    /\ file' = [file EXCEPT ![i] = B64_TAG \o Byte(0)]
    /\ disk' = [disk EXCEPT !.origin = "altered"]
    /\ result' = Res("alter", "", "", "None", "", "None", NoValue, {})
    /\ UNCHANGED <<exists, entropy, vault_data>>
    /\ UNCHANGED credvars
    /\ UNCHANGED runvars

\* The end of a saved vault file is lost (a copy cut short, a full disk): the
\* file keeps its first n bytes.
KeepPrefix(n) ==
    /\ exists
    /\ disk.origin = "save"
    /\ n < Len(file)
    /\ file' = SubSeq(file, 1, n)
    /\ disk' = [disk EXCEPT !.origin = "prefix"]
    /\ result' = Res("prefix", "", "", "None", "", "None", NoValue, {})
    /\ UNCHANGED <<exists, entropy, vault_data>>
    /\ UNCHANGED credvars
    /\ UNCHANGED runvars

(***************************************************************************)
(* CLI commands (cli/commands/init.py, reset.py, base.py)                  *)
(***************************************************************************)
Confirmations == {"y", "YES", "n", ""}

lower(s) == IF s = "YES" THEN "yes" ELSE s

\* InitCommand().run(args): interrupted tells whether the user interrupts
\* the password prompt.
InitCommandRun(master_password, interrupted) ==
    IF exists
    THEN /\ result' = Res("InitCommand", "", "", "None", "",
                          "1", NoValue, {})
         /\ UNCHANGED <<exists, file, entropy, disk>>
    ELSE IF interrupted
    THEN /\ result' = Res("InitCommand", "", "", "None", "",
                          "130", NoValue, {})
         /\ UNCHANGED <<exists, file, entropy, disk>>
    ELSE /\ CanSave
         /\ Written(EMPTY_VAULT, master_password)
         /\ result' = Res("InitCommand", master_password, "", "None", "",
                          "0", NoValue, {"initialize_vault"})

InitCommand(master_password, interrupted) ==
    /\ InitCommandRun(master_password, interrupted)
    /\ UNCHANGED vault_data
    /\ UNCHANGED credvars
    /\ UNCHANGED runvars

\* ResetCommand().run(args)
ResetCommand(confirmation, master_password, interrupted) ==
    /\ IF ~exists
       THEN /\ result' = Res("ResetCommand", "", "", "None", "",
                             "1", NoValue, {})
            /\ UNCHANGED <<exists, file, entropy, disk>>
       ELSE IF lower(confirmation) \notin {"y", "yes"}
       THEN /\ result' = Res("ResetCommand", "", "", "None", "",
                             "0", NoValue, {})
            /\ UNCHANGED <<exists, file, entropy, disk>>
       ELSE IF interrupted
       THEN \* os.remove, then the password prompt of InitCommand is
            \* interrupted
            /\ exists' = FALSE
            /\ file' = <<>>
            /\ disk' = Absent
            /\ result' = Res("ResetCommand", "", "", "None", "",
                             "130", NoValue, {"os.remove"})
            /\ UNCHANGED entropy
       ELSE /\ CanSave
            /\ Written(EMPTY_VAULT, master_password)
            /\ result' = Res("ResetCommand", master_password, "", "None", "",
                             "0", NoValue, {"os.remove", "initialize_vault"})
    /\ UNCHANGED vault_data
    /\ UNCHANGED credvars
    /\ UNCHANGED runvars

(***************************************************************************)
(* Credential backends (core/credential_manager.py and                     *)
(* infrastructure/aws/services/credential_service.py)                      *)
(***************************************************************************)
\* The calls a backend method makes on its facility end in one of these
\* ways.  "Exception" is an exception the method's own except clause does
\* not name (getpass.getuser() failing, an error of the keyring backend that
\* is not a KeyringError); "chmod" is write_text succeeding and chmod
\* failing.
KeyringOutcomes == {"ok", "KeyringError", "Exception"}
WriteOutcomes == {"ok", "OSError", "chmod"}
FileOutcomes == {"ok", "OSError"}
EnvironOutcomes == {"ok", "Exception"}

\* A Python value other than None: its type and its content.
PyDict(d) == [type |-> "dict", v |-> d]
PyList(l) == [type |-> "list", v |-> [items |-> l]]
PyTuple(t) == [type |-> "tuple", v |-> [items |-> t]]

\* dict.get(key, default)
DictGet(d, key, default) == IF key \in DOMAIN d THEN d[key] ELSE default

\* Truth value of a string or None.
Truthy(x) == x # "None" /\ x # ""

\* json.dumps of a dict of strings and None: the text of a JSON object.
dumps(d) == [kind |-> "object", members |-> d]

\* Texts a backend may hold that no current store wrote: text that is not
\* JSON, the old tuple format, and an object without secret_key.
NOT_JSON == [kind |-> "invalid", members |-> [raw |-> "not json"]]
OLD_TUPLE ==
    [kind |-> "array", members |-> [items |-> <<"AKIAOLD", "old-secret">>]]
NO_SECRET ==
    dumps([access_key |-> "AKIAOLD", region |-> "us-east-1"])
OlderTexts == {NOT_JSON, OLD_TUPLE, NO_SECRET}

\* json.loads: the value, or JSONDecodeError.
loads(text) ==
    IF text.kind = "object" THEN [exc |-> "None", value |-> PyDict(text.members)]
    ELSE IF text.kind = "array"
    THEN [exc |-> "None", value |-> PyList(text.members.items)]
    ELSE [exc |-> "JSONDecodeError", value |-> NoValue]

\* The state the credential code reads and writes, and the calls made on
\* the backends so far in the running operation.
World(k, f, e, u, calls) ==
    [keyring |-> k, env_file |-> f, environ |-> e, used |-> u, calls |-> calls]

Called(w, method, backend, o) ==
    [w EXCEPT !.calls = Append(@, <<method, backend, o>>)]

\* Number of calls of the running operation made on a backend.
CallCount(w, backend) ==
    Cardinality({i \in 1..Len(w.calls) : w.calls[i][2] = backend})

(***************************************************************************)
(* CredentialManager (core/credential_manager.py)                          *)
(***************************************************************************)
\* _store_with_keyring(credential_data)
_store_with_keyring(w, credential_data, o) ==
    LET c == Called(w, "store", KEYRING, o) IN
    IF o = "Exception" THEN [w |-> c, ret |-> "raise"]
    ELSE IF o = "KeyringError" THEN [w |-> c, ret |-> "False"]
    ELSE [w |-> [c EXCEPT !.keyring = dumps(credential_data)], ret |-> "True"]

\* _store_with_env_file(credential_data)
_store_with_env_file(w, credential_data, o) ==
    LET c == Called(w, "store", ENV_FILE, o) IN
    IF o = "OSError" THEN [w |-> c, ret |-> "False"]
    ELSE IF o = "chmod"
    THEN [w |-> [c EXCEPT !.env_file = dumps(credential_data)], ret |-> "False"]
    ELSE [w |-> [c EXCEPT !.env_file = dumps(credential_data)], ret |-> "True"]

\* _store_fallback(credential_data)
_store_fallback(w, credential_data, o) ==
    LET c == Called(w, "store", FALLBACK, o) IN
    IF o = "Exception" THEN [w |-> c, ret |-> "False"]
    ELSE [w |-> [c EXCEPT !.environ =
                     [AWS_ACCESS_KEY_ID |-> credential_data.access_key,
                      AWS_SECRET_ACCESS_KEY |-> credential_data.secret_key,
                      AWS_DEFAULT_REGION |-> credential_data.region]],
          ret |-> "True"]

\* _get_storage_method(backend)(credential_data)
_get_storage_method(backend, w, credential_data, o) ==
    IF backend = KEYRING THEN _store_with_keyring(w, credential_data, o)
    ELSE IF backend = ENV_FILE THEN _store_with_env_file(w, credential_data, o)
    ELSE _store_fallback(w, credential_data, o)

\* The body of the loop of store_credentials for one backend: o1 and o2 are
\* the outcomes of the store and of the re-store.
store_step(backend, w, credential_data, o1, o2) ==
    LET r1 == _get_storage_method(backend, w, credential_data, o1) IN
    IF r1.ret = "raise"
    THEN [w |-> r1.w, data |-> credential_data, ret |-> "continue"]
    ELSE IF r1.ret = "False"
    THEN [w |-> r1.w, data |-> credential_data, ret |-> "continue"]
    ELSE LET stamped == [credential_data EXCEPT !.storage_backend = backend]
             r2 == _get_storage_method(backend, r1.w, stamped, o2)
         IN  IF r2.ret = "raise"
             THEN [w |-> r2.w, data |-> stamped, ret |-> "continue"]
             ELSE [w |-> [r2.w EXCEPT !.used = backend], data |-> stamped,
                   ret |-> "True"]

RECURSIVE store_loop(_, _, _, _)
store_loop(backends, w, credential_data, o) ==
    IF backends = <<>>
    THEN [w |-> w, exc |-> "CredentialStorageError", ret |-> "None"]
    ELSE LET b == Head(backends)
             s == store_step(b, w, credential_data, o[b][1], o[b][2])
         IN  IF s.ret = "True"
             THEN [w |-> s.w, exc |-> "None", ret |-> "True"]
             ELSE store_loop(Tail(backends), s.w, s.data, o)

EXPIRY == "now + 7 days"

store_credentials_returns_false(w, creds, o) ==
    LET r == store_loop(_backend_preference, w,
                        [access_key |-> creds.access_key,
                         secret_key |-> creds.secret_key,
                         region |-> creds.region,
                         expiry |-> EXPIRY,
                         storage_backend |-> "None"], o)
    IN  IF r.exc # "None" THEN [w |-> r.w, exc |-> "None", ret |-> "False"]
        ELSE r

\* store_credentials(access_key, secret_key, region): o[b] holds the
\* outcomes of the first and second call made on backend b.
store_credentials(w, creds, o) ==
    store_loop(_backend_preference, w,
                 [access_key |-> creds.access_key,
                  secret_key |-> creds.secret_key,
                  region |-> creds.region,
                  expiry |-> EXPIRY,
                  storage_backend |-> "None"], o)

\* _get_fallback()
_get_fallback(w) ==
    PyTuple(<<w.environ.AWS_ACCESS_KEY_ID, w.environ.AWS_SECRET_ACCESS_KEY,
              IF w.environ.AWS_DEFAULT_REGION = "None" THEN "us-east-1"
              ELSE w.environ.AWS_DEFAULT_REGION>>)

\* StorageBackend(backend_str) raises ValueError for any other string.
StorageBackendValues == {KEYRING, ENV_FILE, FALLBACK}

\* The part _get_from_keyring and _get_from_env_file share: the stored text
\* parsed and checked, _used_backend updated from the record.
FromText(w, text) ==
    LET p == loads(text) IN
    IF p.exc # "None" THEN [w |-> w, ret |-> NoValue, raised |-> FALSE]
    ELSE IF p.value.type # "dict"
    THEN [w |-> w, ret |-> NoValue, raised |-> FALSE]
    ELSE LET creds_data == p.value.v
             access_key == DictGet(creds_data, "access_key", "None")
             secret_key == DictGet(creds_data, "secret_key", "None")
             region == DictGet(creds_data, "region", "us-east-1")
             backend_str == DictGet(creds_data, "storage_backend", "None")
         IN  IF Truthy(access_key) /\ Truthy(secret_key)
             THEN [w |-> IF Truthy(backend_str)
                            /\ backend_str \in StorageBackendValues
                         THEN [w EXCEPT !.used = backend_str] ELSE w,
                   ret |-> PyTuple(<<access_key, secret_key, region>>),
                   raised |-> FALSE]
             ELSE [w |-> w, ret |-> NoValue, raised |-> FALSE]

\* _get_from_keyring()
_get_from_keyring(w, o) ==
    LET c == Called(w, "get", KEYRING, o) IN
    IF o = "Exception" THEN [w |-> c, ret |-> NoValue, raised |-> TRUE]
    ELSE IF o = "KeyringError" \/ c.keyring = NoValue
    THEN [w |-> c, ret |-> NoValue, raised |-> FALSE]
    ELSE FromText(c, c.keyring)

\* _get_from_env_file()
_get_from_env_file(w, o) ==
    LET c == Called(w, "get", ENV_FILE, o) IN
    IF o = "OSError" \/ c.env_file = NoValue
    THEN [w |-> c, ret |-> NoValue, raised |-> FALSE]
    ELSE FromText(c, c.env_file)

\* _get_from_backend(backend)
_get_from_backend(backend, w, o) ==
    IF backend = KEYRING THEN _get_from_keyring(w, o)
    ELSE IF backend = ENV_FILE THEN _get_from_env_file(w, o)
    ELSE [w |-> Called(w, "get", FALLBACK, "ok"), ret |-> _get_fallback(w),
          raised |-> FALSE]

\* _are_credentials_expired(creds)
_are_credentials_expired(creds) == FALSE

\* The loop of get_credentials over the backends in preference order.
RECURSIVE get_loop(_, _, _)
get_loop(backends, w, o) ==
    IF backends = <<>>
    THEN [w |-> w, exc |-> "None", ret |-> _get_fallback(w)]
    ELSE LET b == Head(backends)
             r == _get_from_backend(b, w, o[b])
         IN  IF r.raised THEN get_loop(Tail(backends), r.w, o)
             ELSE IF r.ret # NoValue /\ ~_are_credentials_expired(r.ret)
             THEN [w |-> [r.w EXCEPT !.used = b], exc |-> "None",
                   ret |-> r.ret]
             ELSE get_loop(Tail(backends), r.w, o)

\* get_credentials(): o.fast is the outcome of the call on _used_backend,
\* o.loop[b] that of the call the loop makes on backend b.
get_credentials(w, o) ==
    IF w.used # "None"
    THEN LET r == _get_from_backend(w.used, w, o.fast) IN
         IF r.raised THEN [w |-> r.w, exc |-> "Exception", ret |-> NoValue]
         ELSE IF r.ret # NoValue /\ ~_are_credentials_expired(r.ret)
         THEN [w |-> r.w, exc |-> "None", ret |-> r.ret]
         ELSE get_loop(_backend_preference, r.w, o.loop)
    ELSE get_loop(_backend_preference, w, o.loop)

\* The two deletions clear_credentials and the service's clear_credentials
\* share: the keyring entry, then the file.
Deletions(w, ok, of) ==
    LET c1 == Called(w, "delete", KEYRING, ok)
        w1 == IF ok = "ok" THEN [c1 EXCEPT !.keyring = NoValue] ELSE c1
        c2 == Called(w1, "delete", ENV_FILE, of)
        w2 == IF of = "ok" THEN [c2 EXCEPT !.env_file = NoValue] ELSE c2
    IN  IF ok = "Exception"
        THEN [w |-> c1, exc |-> "Exception", success |-> "None"]
        ELSE [w |-> w2, exc |-> "None",
              success |-> IF ok = "ok" /\ of = "ok" THEN "True" ELSE "False"]

\* clear_credentials(): ok and of are the outcomes of the keyring deletion
\* and of the file deletion.
clear_credentials(w, ok, of) ==
    LET d == Deletions(w, ok, of) IN
    IF d.exc # "None" THEN [w |-> d.w, exc |-> d.exc, ret |-> "None"]
    ELSE [w |-> [Called(d.w, "delete", FALLBACK, "ok")
                     EXCEPT !.environ = ENVIRON_UNSET, !.used = "None"],
          exc |-> "None", ret |-> d.success]

(***************************************************************************)
(* AWSCredentialService (infrastructure/aws/services/credential_service.py)*)
(***************************************************************************)
AWS_backend_preference == <<KEYRING, ENV_FILE>>

\* _store_keyring(data)
_store_keyring(w, data, o) ==
    LET c == Called(w, "store", KEYRING, o) IN
    IF o = "Exception" THEN [w |-> c, ret |-> "raise"]
    ELSE IF o = "KeyringError" THEN [w |-> c, ret |-> "False"]
    ELSE [w |-> [c EXCEPT !.keyring = dumps(data)], ret |-> "True"]

\* _store_env_file(data)
_store_env_file(w, data, o) ==
    LET c == Called(w, "store", ENV_FILE, o) IN
    IF o = "OSError" THEN [w |-> c, ret |-> "False"]
    ELSE IF o = "chmod"
    THEN [w |-> [c EXCEPT !.env_file = dumps(data)], ret |-> "False"]
    ELSE [w |-> [c EXCEPT !.env_file = dumps(data)], ret |-> "True"]

\* _store_with_backend(backend, data)
_store_with_backend(backend, w, data, o) ==
    IF backend = KEYRING THEN _store_keyring(w, data, o)
    ELSE _store_env_file(w, data, o)

RECURSIVE AWS_store_loop(_, _, _, _)
AWS_store_loop(backends, w, credential_data, o) ==
    IF backends = <<>>
    THEN [w |-> w, exc |-> "AWSCredentialError", ret |-> "None"]
    ELSE LET b == Head(backends)
             r == _store_with_backend(b, w, credential_data, o[b])
         IN  IF r.ret = "True"
             THEN [w |-> [r.w EXCEPT !.used = b], exc |-> "None",
                   ret |-> "True"]
             ELSE AWS_store_loop(Tail(backends), r.w, credential_data, o)

\* store_credentials(credentials): o[b] is the outcome of the call made on
\* backend b.
AWS_store_credentials(w, credentials, o) ==
    AWS_store_loop(AWS_backend_preference, w, credentials, o)

\* The value json.loads gives for the stored text, None when it fails.
Loaded(text) ==
    LET p == loads(text) IN IF p.exc # "None" THEN NoValue ELSE p.value

\* _retrieve_keyring()
_retrieve_keyring(w, o) ==
    LET c == Called(w, "get", KEYRING, o) IN
    IF o = "Exception" THEN [w |-> c, ret |-> NoValue, raised |-> TRUE]
    ELSE IF o = "KeyringError" \/ c.keyring = NoValue
    THEN [w |-> c, ret |-> NoValue, raised |-> FALSE]
    ELSE [w |-> c, ret |-> Loaded(c.keyring), raised |-> FALSE]

\* _retrieve_env_file()
_retrieve_env_file(w, o) ==
    LET c == Called(w, "get", ENV_FILE, o) IN
    IF o = "OSError" \/ c.env_file = NoValue
    THEN [w |-> c, ret |-> NoValue, raised |-> FALSE]
    ELSE [w |-> c, ret |-> Loaded(c.env_file), raised |-> FALSE]

\* _retrieve_from_backend(backend)
_retrieve_from_backend(backend, w, o) ==
    IF backend = KEYRING THEN _retrieve_keyring(w, o)
    ELSE _retrieve_env_file(w, o)

RECURSIVE retrieve_loop(_, _, _)
retrieve_loop(backends, w, o) ==
    IF backends = <<>> THEN [w |-> w, exc |-> "None", ret |-> NoValue]
    ELSE LET b == Head(backends)
             r == _retrieve_from_backend(b, w, o[b])
         IN  IF ~r.raised /\ r.ret # NoValue
             THEN [w |-> r.w, exc |-> "None", ret |-> r.ret]
             ELSE retrieve_loop(Tail(backends), r.w, o)

\* retrieve_credentials(): o[b] is the outcome of the call made on b.
retrieve_credentials(w, o) == retrieve_loop(AWS_backend_preference, w, o)

\* clear_credentials() of the service.
AWS_clear_credentials(w, ok, of) ==
    LET d == Deletions(w, ok, of) IN
    IF d.exc # "None" THEN [w |-> d.w, exc |-> d.exc, ret |-> "None"]
    ELSE [w |-> [d.w EXCEPT !.used = "None"], exc |-> "None",
          ret |-> d.success]

(***************************************************************************)
(* Credential operations as steps                                          *)
(***************************************************************************)
\* The credentials a caller stores.
FIRST ==
    [access_key |-> "AKIAFIRST", secret_key |-> "first-secret",
     region |-> "eu-north-1"]
SECOND ==
    [access_key |-> "AKIASECOND", secret_key |-> "second-secret",
     region |-> "eu-north-1"]
Credentials == {FIRST, SECOND}

\* The dict prompt_for_credentials returns for them.
AWSDict(creds) ==
    [role_arn |-> "arn:aws:iam::123456789012:role/lox",
     access_key |-> creds.access_key, secret_key |-> creds.secret_key,
     region |-> creds.region]

Outcomes(backend) ==
    IF backend = KEYRING THEN KeyringOutcomes
    ELSE IF backend = ENV_FILE THEN FileOutcomes
    ELSE {"ok"}

StoreOutcomes(backend) ==
    IF backend = KEYRING THEN KeyringOutcomes
    ELSE IF backend = ENV_FILE THEN WriteOutcomes
    ELSE EnvironOutcomes

TheWorld(manager) ==
    World(keyring_password, env_file, environ, used_backend[manager], <<>>)

\* The operation's effect on the backends and on the manager's
\* _used_backend, and its outcome.
Effect(op, manager, r, ret, value) ==
    /\ keyring_password' = r.w.keyring
    /\ env_file' = r.w.env_file
    /\ environ' = r.w.environ
    /\ used_backend' = [used_backend EXCEPT ![manager] = r.w.used]
    /\ outcome' = Out(op, manager, r.exc, ret, value, r.w.calls)
    /\ UNCHANGED vaultvars
    /\ UNCHANGED runvars

\* An outcome is chosen for each call the operation makes; the outcomes of
\* calls it does not make are left at "ok".
StoreCredentials(creds, k1, k2, f1, f2, e1, e2) ==
    LET o == [b \in StorageBackendValues |->
                 IF b = KEYRING THEN <<k1, k2>>
                 ELSE IF b = ENV_FILE THEN <<f1, f2>>
                 ELSE <<e1, e2>>]
        r == store_credentials(TheWorld(LEGACY), creds, o)
    IN
    /\ k1 # "ok" => k2 = "ok"
    /\ f1 # "ok" => f2 = "ok"
    /\ e1 # "ok" => e2 = "ok"
    /\ \A b \in StorageBackendValues, i \in 1..2 :
           i > CallCount(r.w, b) => o[b][i] = "ok"
    /\ Effect("store_credentials", LEGACY, r, r.ret, PyDict(creds))

GetCredentials(o) ==
    LET w == TheWorld(LEGACY)
        r == get_credentials(w, o)
        fast == IF w.used = "None" THEN 0 ELSE 1
    IN
    /\ o.fast \in (IF fast = 1 THEN Outcomes(w.used) ELSE {"ok"})
    /\ \A b \in StorageBackendValues :
           CallCount(r.w, b) <= (IF w.used = b THEN 1 ELSE 0)
               => o.loop[b] = "ok"
    /\ Effect("get_credentials", LEGACY, r,
              IF r.ret = NoValue THEN "None" ELSE "value", r.ret)

ClearCredentials(ok, of) ==
    LET r == clear_credentials(TheWorld(LEGACY), ok, of) IN
    /\ ok = "Exception" => of = "ok"
    /\ Effect("clear_credentials", LEGACY, r, r.ret, NoValue)

AwsStoreCredentials(creds, o) ==
    LET r == AWS_store_credentials(TheWorld(SERVICE), AWSDict(creds), o) IN
    /\ \A b \in {KEYRING, ENV_FILE} : CallCount(r.w, b) = 0 => o[b] = "ok"
    /\ Effect("store_credentials", SERVICE, r, r.ret, PyDict(AWSDict(creds)))

RetrieveCredentials(o) ==
    LET r == retrieve_credentials(TheWorld(SERVICE), o) IN
    /\ \A b \in {KEYRING, ENV_FILE} : CallCount(r.w, b) = 0 => o[b] = "ok"
    /\ Effect("retrieve_credentials", SERVICE, r,
              IF r.ret = NoValue THEN "None" ELSE "value", r.ret)

AwsClearCredentials(ok, of) ==
    LET r == AWS_clear_credentials(TheWorld(SERVICE), ok, of) IN
    /\ ok = "Exception" => of = "ok"
    /\ Effect("clear_credentials", SERVICE, r, r.ret, NoValue)

\* The process ends and a new one starts: new manager instances, and the
\* environment the shell hands over, where the AWS variables are not set.
NewProcess ==
    /\ used_backend' = [m \in Managers |-> "None"]
    /\ environ' = ENVIRON_UNSET
    /\ outcome' = Out("new process", "", "None", "None", NoValue, <<>>)
    /\ UNCHANGED <<keyring_password, env_file>>
    /\ UNCHANGED vaultvars
    /\ UNCHANGED runvars

\* A record of an older schema, or text that is not a record, is in a
\* backend.
OlderRecord(backend, text) ==
    /\ keyring_password' = IF backend = KEYRING THEN text ELSE keyring_password
    /\ env_file' = IF backend = ENV_FILE THEN text ELSE env_file
    /\ outcome' = Out("older record", "", "None", "None", NoValue, <<>>)
    /\ UNCHANGED <<environ, used_backend>>
    /\ UNCHANGED vaultvars
    /\ UNCHANGED runvars

\* CredentialManager on its own.
NextCred ==
    \/ \E c \in {FIRST}, k1 \in KeyringOutcomes, k2 \in KeyringOutcomes,
          f1 \in WriteOutcomes, f2 \in WriteOutcomes,
          e1 \in EnvironOutcomes, e2 \in EnvironOutcomes :
           StoreCredentials(c, k1, k2, f1, f2, e1, e2)
    \/ \E f \in KeyringOutcomes \cup FileOutcomes,
          k \in KeyringOutcomes, e \in FileOutcomes :
           GetCredentials([fast |-> f,
                           loop |-> [b \in StorageBackendValues |->
                                        IF b = KEYRING THEN k
                                        ELSE IF b = ENV_FILE THEN e
                                        ELSE "ok"]])
    \/ \E ok \in KeyringOutcomes, of \in FileOutcomes : ClearCredentials(ok, of)
    \/ NewProcess
    \/ \E b \in {KEYRING, ENV_FILE}, t \in OlderTexts : OlderRecord(b, t)

\* AWSCredentialService on its own.
NextAws ==
    \/ \E c \in Credentials, k \in KeyringOutcomes, e \in WriteOutcomes :
           AwsStoreCredentials(c, [b \in {KEYRING, ENV_FILE} |->
                                      IF b = KEYRING THEN k ELSE e])
    \/ \E k \in KeyringOutcomes, e \in FileOutcomes :
           RetrieveCredentials([b \in {KEYRING, ENV_FILE} |->
                                   IF b = KEYRING THEN k ELSE e])
    \/ \E ok \in KeyringOutcomes, of \in FileOutcomes :
           AwsClearCredentials(ok, of)
    \/ NewProcess
    \/ \E b \in {KEYRING, ENV_FILE}, t \in OlderTexts : OlderRecord(b, t)

\* The store and clear operations of both managers, which share the keyring
\* entry and the file.
NextStore ==
    \/ \E k1 \in KeyringOutcomes, k2 \in KeyringOutcomes,
          f1 \in WriteOutcomes, f2 \in WriteOutcomes,
          e1 \in EnvironOutcomes, e2 \in EnvironOutcomes :
           StoreCredentials(FIRST, k1, k2, f1, f2, e1, e2)
    \/ \E ok \in KeyringOutcomes, of \in FileOutcomes : ClearCredentials(ok, of)
    \/ \E k \in KeyringOutcomes, e \in WriteOutcomes :
           AwsStoreCredentials(SECOND, [b \in {KEYRING, ENV_FILE} |->
                                           IF b = KEYRING THEN k ELSE e])
    \/ \E ok \in KeyringOutcomes, of \in FileOutcomes :
           AwsClearCredentials(ok, of)

InitCred == Init /\ vault_data = EMPTY_VAULT

SpecCred == InitCred /\ [][NextCred]_vars

SpecAws == InitCred /\ [][NextAws]_vars

SpecStore == InitCred /\ [][NextStore]_vars

(***************************************************************************)
(* Specification                                                           *)
(***************************************************************************)
Next ==
    \/ \E p \in MasterPasswords : save_vault(p)
    \/ \E p \in MasterPasswords : initialize_vault(p)
    \/ \E p \in MasterPasswords : load_vault(p)
    \/ get_encrypted_vault
    \/ delete_vault
    \/ \E p \in MasterPasswords : get_vault_data(p)
    \/ AddPasswordEntry("github", "Tr0ub4dor&3")
    \/ \E p \in MasterPasswords, k \in 0..2 : SaveInterrupted(p, k)
    \/ \E b \in Blobs : sync_replace_local_file_content(b)
    \/ \E g \in Garbage : AppendGarbage(g)
    \/ \E i \in AlterPositions(file) : AlterCiphertext(i)
    \/ \E p \in MasterPasswords, x \in BOOLEAN : InitCommand(p, x)
    \/ \E c \in Confirmations, p \in MasterPasswords, x \in BOOLEAN :
           ResetCommand(c, p, x)

Spec == Init /\ [][Next]_vars

\* The VaultManager operations on a dict in memory, on their own.
NextCrud ==
    \/ \E n \in Names, p \in Passwords : AddPasswordEntry(n, p)
    \/ \E n \in Names, p \in Passwords : UpdatePasswordEntry(n, p)
    \/ \E n \in Names : DeletePasswordEntry(n)
    \/ \E n \in Names : GetPassword(n)
    \/ GetServiceNames

SpecCrud == Init /\ [][NextCrud]_vars

(***************************************************************************)
(* The vault file operations when the file system fails                    *)
(* (core/storage/local_vault.py, core/services/vault_manager.py and the    *)
(* older core/storage.py)                                                  *)
(***************************************************************************)
\* open() and the writes end in one of these ways: "open" is open() raising
\* OSError, "write" is open() truncating the file and a write raising
\* OSError.
OpenOutcomes == {"ok", "open"}
SaveOutcomes == {"ok", "open", "write"}

OPEN_FAILED == "open: OSError"
WRITE_FAILED == "write: OSError"

\* What the operation's calls on the file did, as kept in result.calls.
IoCalls(io) ==
    IF io = "open" THEN {OPEN_FAILED}
    ELSE IF io = "write" THEN {WRITE_FAILED}
    ELSE {}

MSG_FS_SAVE == "File system error saving vault: "
MSG_SAVE_FAILED == "Failed to save vault: "
MSG_INIT_FAILED == "Failed to initialize vault: "
MSG_READ == "Error reading encrypted vault file: "
MSG_WRITE == "Error writing to vault file: "
MSG_LEGACY_UNEXPECTED == "An unexpected error occurred while loading the vault: "

\* The file after open(path, "wb") and the writes of data, ended by io.
WrittenOrNot(data, master_password, io) ==
    IF io = "ok" THEN CanSave /\ Written(data, master_password)
    ELSE IF io = "write"
    THEN /\ exists' = TRUE
         /\ file' = <<>>
         /\ disk' = Disk("partial", NoValue, "", FALSE)
         /\ UNCHANGED entropy
    ELSE UNCHANGED <<exists, file, entropy, disk>>

\* Vault.save_vault(data, master_password): OSError becomes
\* VaultOperationError.
VaultSave(master_password, io) ==
    /\ WrittenOrNot(vault_data, master_password, io)
    /\ result' = IF io = "ok"
                 THEN Res("save_vault", master_password, "", "None", "",
                          "True", NoValue, IoCalls(io))
                 ELSE Res("save_vault", master_password, "",
                          "VaultOperationError", MSG_FS_SAVE, "None", NoValue,
                          IoCalls(io))
    /\ UNCHANGED vault_data
    /\ UNCHANGED credvars
    /\ UNCHANGED runvars

\* Vault.load_vault(master_password): an OSError of open() is handled by the
\* second except clause.
VaultLoad(master_password, io) ==
    \E r \in {IF exists /\ io = "open"
              THEN [exc |-> "VaultOperationError", msg |-> MSG_UNEXPECTED,
                    value |-> NoValue]
              ELSE LoadVault(exists, file, master_password)} :
    /\ io = "open" => exists
    /\ result' = Res("load_vault", master_password, "", r.exc, r.msg,
                     IF r.exc = "None" THEN "value" ELSE "None", r.value,
                     IF exists THEN IoCalls(io) ELSE {})
    /\ vault_data' = IF r.exc = "None" THEN r.value ELSE vault_data
    /\ UNCHANGED <<exists, file, entropy, disk>>
    /\ UNCHANGED credvars
    /\ UNCHANGED runvars

\* Vault.get_encrypted_vault()
VaultGetEncrypted(io) ==
    /\ io = "open" => exists
    /\ result' = IF ~exists
                 THEN Res("get_encrypted_vault", "", "", "VaultNotFoundError",
                          MSG_NOT_FOUND, "None", NoValue, {})
                 ELSE IF io = "open"
                 THEN Res("get_encrypted_vault", "", "", "VaultOperationError",
                          MSG_READ, "None", NoValue, IoCalls(io))
                 ELSE Res("get_encrypted_vault", "", "", "None", "", "bytes",
                          NoValue, {})
    /\ UNCHANGED <<exists, file, entropy, vault_data, disk>>
    /\ UNCHANGED credvars
    /\ UNCHANGED runvars

\* Vault.sync_replace_local_file_content(cloud_bytes_content)
VaultSyncReplace(cloud_bytes_content, io) ==
    /\ IF io = "ok"
       THEN /\ exists' = TRUE
            /\ file' = cloud_bytes_content
            /\ disk' = Disk("sync", NoValue, "", FALSE)
            /\ result' = Res("sync_replace_local_file_content", "", "", "None",
                             "", "True", NoValue, {})
       ELSE /\ IF io = "write"
               THEN /\ exists' = TRUE
                    /\ file' = <<>>
                    /\ disk' = Disk("partial", NoValue, "", FALSE)
               ELSE UNCHANGED <<exists, file, disk>>
            /\ result' = Res("sync_replace_local_file_content", "", "",
                             "VaultOperationError", MSG_WRITE, "None", NoValue,
                             IoCalls(io))
    /\ UNCHANGED <<entropy, vault_data>>
    /\ UNCHANGED credvars
    /\ UNCHANGED runvars

\* VaultManager.save_vault_data(vault_data, master_password)
ManagerSaveVaultData(master_password, io) ==
    /\ WrittenOrNot(vault_data, master_password, io)
    /\ result' = IF io = "ok"
                 THEN Res("save_vault_data", master_password, "", "None", "",
                          "True", NoValue, {"save_vault"} \cup IoCalls(io))
                 ELSE Res("save_vault_data", master_password, "",
                          "VaultOperationError", MSG_SAVE_FAILED, "None",
                          NoValue, {"save_vault"} \cup IoCalls(io))
    /\ UNCHANGED vault_data
    /\ UNCHANGED credvars
    /\ UNCHANGED runvars

\* VaultManager.get_vault_data(master_password)
ManagerGetVaultData(master_password, io) ==
    \E r \in {IF exists /\ io = "open"
              THEN [exc |-> "VaultOperationError", msg |-> MSG_LOAD_FAILED,
                    value |-> NoValue]
              ELSE GetVaultData(exists, file, master_password)} :
    /\ io = "open" => exists
    /\ result' = Res("get_vault_data", master_password, "", r.exc, r.msg,
                     IF r.exc = "None" THEN "value" ELSE "None", r.value,
                     IF exists THEN {"load_vault"} \cup IoCalls(io) ELSE {})
    /\ vault_data' = IF r.exc = "None" THEN r.value ELSE vault_data
    /\ UNCHANGED <<exists, file, entropy, disk>>
    /\ UNCHANGED credvars
    /\ UNCHANGED runvars

\* VaultManager.initialize_vault(master_password): save_vault of the empty
\* vault, without a look at the file.
ManagerInitializeVault(master_password, io) ==
    /\ WrittenOrNot(EMPTY_VAULT, master_password, io)
    /\ result' = IF io = "ok"
                 THEN Res("VaultManager.initialize_vault", master_password, "",
                          "None", "", "True", NoValue,
                          {"save_vault"} \cup IoCalls(io))
                 ELSE Res("VaultManager.initialize_vault", master_password, "",
                          "VaultOperationError", MSG_INIT_FAILED, "None",
                          NoValue, {"save_vault"} \cup IoCalls(io))
    /\ UNCHANGED vault_data
    /\ UNCHANGED credvars
    /\ UNCHANGED runvars

\* save_vault of core/storage.py: every exception is printed and the method
\* returns False.
StorageSaveVault(master_password, io) ==
    /\ WrittenOrNot(vault_data, master_password, io)
    /\ result' = Res("core.storage.save_vault", master_password, "", "None",
                     "", IF io = "ok" THEN "True" ELSE "False", NoValue,
                     IoCalls(io))
    /\ UNCHANGED vault_data
    /\ UNCHANGED credvars
    /\ UNCHANGED runvars

\* load_vault of core/storage.py: FileNotFoundError for a missing file, its
\* own VaultError for everything else.
StorageLoad(present, f, master_password, io) ==
    IF ~present
    THEN [exc |-> "FileNotFoundError", msg |-> MSG_NOT_FOUND,
          value |-> NoValue]
    ELSE IF io = "open"
    THEN [exc |-> "core.storage.VaultError", msg |-> MSG_LEGACY_UNEXPECTED,
          value |-> NoValue]
    ELSE CHOOSE l \in
             {IF r.exc # "None"
              THEN [exc |-> "core.storage.VaultError",
                    msg |-> IF r.msg = MSG_UNEXPECTED
                            THEN MSG_LEGACY_UNEXPECTED ELSE r.msg,
                    value |-> NoValue]
              ELSE r : r \in {LoadVault(present, f, master_password)}} : TRUE

StorageLoadVault(master_password, io) ==
    \E r \in {StorageLoad(exists, file, master_password, io)} :
    /\ io = "open" => exists
    /\ result' = Res("core.storage.load_vault", master_password, "", r.exc,
                     r.msg, IF r.exc = "None" THEN "value" ELSE "None",
                     r.value, IF exists THEN IoCalls(io) ELSE {})
    /\ vault_data' = IF r.exc = "None" THEN r.value ELSE vault_data
    /\ UNCHANGED <<exists, file, entropy, disk>>
    /\ UNCHANGED credvars
    /\ UNCHANGED runvars

\* The vault file operations, the VaultManager wrappers and the older Vault
\* on one file.
NextIo ==
    \/ \E p \in MasterPasswords, io \in SaveOutcomes : VaultSave(p, io)
    \/ \E p \in MasterPasswords, io \in OpenOutcomes : VaultLoad(p, io)
    \/ \E io \in OpenOutcomes : VaultGetEncrypted(io)
    \/ \E b \in Blobs, io \in SaveOutcomes : VaultSyncReplace(b, io)
    \/ \E p \in MasterPasswords, io \in SaveOutcomes :
           ManagerSaveVaultData(p, io)
    \/ \E p \in MasterPasswords, io \in OpenOutcomes :
           ManagerGetVaultData(p, io)
    \/ \E p \in MasterPasswords, io \in SaveOutcomes :
           ManagerInitializeVault(p, io)
    \/ \E p \in MasterPasswords, io \in SaveOutcomes : StorageSaveVault(p, io)
    \/ \E p \in MasterPasswords, io \in OpenOutcomes : StorageLoadVault(p, io)
    \/ AddPasswordEntry("github", "Tr0ub4dor&3")

SpecIo == InitCred /\ [][NextIo]_vars

(***************************************************************************)
(* Two command runs on one vault file (cli/commands/base.py, add.py,       *)
(* delete.py)                                                              *)
(***************************************************************************)
\* The start of AddCommand and DeleteCommand under BaseCommand.run, up to
\* the vault dict: the exit code run returns when the command ends here,
\* "None" when it goes on.  ValidationError gives 2; VaultOperationError is
\* not among the exceptions execute catches, and neither is the KeyError of
\* vault_data["services"], so run's last except clause gives 4.
CommandLoad(present, f, master_password) ==
    IF ~present THEN [code |-> "2", data |-> NoValue]
    ELSE CHOOSE l \in
             {IF d.exc # "None" THEN [code |-> "4", data |-> NoValue]
              ELSE IF "services" \notin DOMAIN d.value
              THEN [code |-> "4", data |-> NoValue]
              ELSE [code |-> "None", data |-> d.value] :
                  d \in {GetVaultData(present, f, master_password)}} : TRUE

\* generate_password(): the password the run generates.
Generated(r) == IF r = 1 THEN "Tr0ub4dor&3" ELSE "hunter2"

\* Number of runs that have saved.
Saved == Cardinality({q \in Runs : invocation[q].order > 0})

Ended(r, command, name, master_password, code) ==
    [pc |-> "done", command |-> command, name |-> name,
     pw |-> master_password, data |-> NoValue, seen |-> <<>>, order |-> 0,
     code |-> code]

\* AddCommand.execute up to the check of the name: the run loads the vault
\* and holds it while the password is generated.
AddLoad(r, name, master_password) ==
    /\ invocation[r].pc = "start"
    /\ \E l \in {CommandLoad(exists, file, master_password)} :
         invocation' = [invocation EXCEPT ![r] =
             IF l.code # "None"
             THEN Ended(r, "add", name, master_password, l.code)
             ELSE IF Has(l.data.services, name)
             THEN Ended(r, "add", name, master_password, "1")
             ELSE [pc |-> "loaded", command |-> "add", name |-> name,
                   pw |-> master_password, data |-> l.data, seen |-> file,
                   order |-> 0, code |-> "None"]]
    /\ result' = Res("AddCommand", master_password, name, "None", "",
                     invocation'[r].code, NoValue, {"get_vault_data"})
    /\ UNCHANGED <<exists, file, entropy, vault_data, disk, table>>
    /\ UNCHANGED credvars

AddSave_rejects_stale(r) ==
    LET i == invocation[r] IN
    /\ i.pc = "loaded" /\ i.command = "add"
    /\ IF file = i.seen
       THEN /\ Written([i.data EXCEPT !.services =
                           Append(@, <<i.name, [password |-> Generated(r)]>>)],
                       i.pw)
            /\ invocation' = [invocation EXCEPT ![r] =
                   [i EXCEPT !.pc = "done", !.code = "0",
                             !.order = Saved + 1,
                             !.data = [i.data EXCEPT !.services =
                                 Append(@, <<i.name,
                                        [password |-> Generated(r)]>>)]]]
       ELSE /\ invocation' = [invocation EXCEPT ![r] =
                   [i EXCEPT !.pc = "done", !.code = "1"]]
            /\ UNCHANGED <<exists, file, entropy, disk>>
    /\ result' = Res("AddCommand", i.pw, i.name, "None", "",
                     invocation'[r].code, NoValue, {"save_vault_data"})
    /\ UNCHANGED <<vault_data, table>>
    /\ UNCHANGED credvars

\* The rest of AddCommand.execute: the entry is put into the dict the run
\* holds and the dict is saved.
AddSave(r) ==
    LET i == invocation[r]
        data == [i.data EXCEPT !.services =
                    Append(@, <<i.name, [password |-> Generated(r)]>>)]
    IN
    /\ i.pc = "loaded" /\ i.command = "add"
    /\ Written(data, i.pw)
    /\ invocation' = [invocation EXCEPT ![r] =
           [i EXCEPT !.pc = "done", !.code = "0", !.order = Saved + 1,
                     !.data = data]]
    /\ result' = Res("AddCommand", i.pw, i.name, "None", "", "0", NoValue,
                     {"save_vault_data"})
    /\ UNCHANGED <<vault_data, table>>
    /\ UNCHANGED credvars

\* DeleteCommand.execute up to the confirmation prompt.
DeleteLoad(r, name, master_password) ==
    /\ invocation[r].pc = "start"
    /\ \E l \in {CommandLoad(exists, file, master_password)} :
         invocation' = [invocation EXCEPT ![r] =
             IF l.code # "None"
             THEN Ended(r, "delete", name, master_password, l.code)
             ELSE IF ~Has(l.data.services, name)
             THEN Ended(r, "delete", name, master_password, "1")
             ELSE [pc |-> "loaded", command |-> "delete", name |-> name,
                   pw |-> master_password, data |-> l.data, seen |-> file,
                   order |-> 0, code |-> "None"]]
    /\ result' = Res("DeleteCommand", master_password, name, "None", "",
                     invocation'[r].code, NoValue, {"get_vault_data"})
    /\ UNCHANGED <<exists, file, entropy, vault_data, disk, table>>
    /\ UNCHANGED credvars

\* The rest of DeleteCommand.execute: the answer to the prompt, and for a
\* yes the entry is deleted from the dict the run holds and the dict saved.
DeleteSave(r, confirmation) ==
    LET i == invocation[r]
        data == [i.data EXCEPT !.services = Without(@, i.name)]
    IN
    /\ i.pc = "loaded" /\ i.command = "delete"
    /\ IF lower(confirmation) \notin {"y", "yes"}
       THEN /\ invocation' = [invocation EXCEPT ![r] =
                   [i EXCEPT !.pc = "done", !.code = "0"]]
            /\ result' = Res("DeleteCommand", i.pw, i.name, "None", "", "0",
                             NoValue, {})
            /\ UNCHANGED <<exists, file, entropy, disk>>
       ELSE /\ Written(data, i.pw)
            /\ invocation' = [invocation EXCEPT ![r] =
                   [i EXCEPT !.pc = "done", !.code = "0",
                             !.order = Saved + 1, !.data = data]]
            /\ result' = Res("DeleteCommand", i.pw, i.name, "None", "", "0",
                             NoValue, {"save_vault_data"})
    /\ UNCHANGED <<vault_data, table>>
    /\ UNCHANGED credvars

\* The vault a run of "lox add" leaves behind.
ONE_ENTRY ==
    [services |-> << <<"github", [password |-> "hunter2"]>> >>,
     metadata |-> METADATA]

\* The vault file exists, saved by an earlier command.
InitRace ==
    /\ exists = TRUE
    /\ \E v \in {EMPTY_VAULT, ONE_ENTRY} :
         /\ file = FileBytes(v, "correct-horse-battery-staple", 1)
         /\ disk = Disk("save", v, "correct-horse-battery-staple", FALSE)
    /\ entropy = 3
    /\ vault_data = EMPTY_VAULT
    /\ result = Res("start", "", "", "None", "", "None", NoValue, {})
    /\ keyring_password = NoValue
    /\ env_file = NoValue
    /\ environ = ENVIRON_UNSET
    /\ used_backend = [m \in Managers |-> "None"]
    /\ outcome = Out("start", "", "None", "None", NoValue, <<>>)
    /\ invocation = [r \in Runs |-> NotStarted]
    /\ table = <<>>

NextRace ==
    \/ \E r \in Runs, n \in Names, p \in MasterPasswords : AddLoad(r, n, p)
    \/ \E r \in Runs : AddSave(r)
    \/ \E r \in Runs, n \in Names, p \in MasterPasswords : DeleteLoad(r, n, p)
    \/ \E r \in Runs, c \in Confirmations : DeleteSave(r, c)

SpecRace == InitRace /\ [][NextRace]_vars

(***************************************************************************)
(* DynamoDB synchronisation                                                *)
(* (infrastructure/aws/services/dynamodb_service.py)                       *)
(***************************************************************************)
MaxUploads == 2        \* number of items a behaviour puts into the table

\* int(time.time() * 1000) on the machine that uploads: the wall clock of
\* that machine, which another machine's clock may be ahead of or behind.
Clock == {1, 2}

STD_TAG == <<68>>      \* a symbol of base64.b64encode's output

\* base64.b64encode(raw).decode("ascii"): one symbol per raw cell, then '='
\* padding up to a whole group of three.
b64encode(raw) ==
    [i \in 1..Len(raw) |-> STD_TAG \o raw[i]]
        \o [i \in 1..PadCount(Len(raw)) |-> Byte(PAD_CHAR)]

\* base64.b64decode(text.encode("ascii")): the raw cells of the symbols;
\* binascii.Error when the padding does not complete the last group.
b64decode(text) ==
    LET IsSymbol(c) == Len(c) > 1 /\ c[1] = STD_TAG[1]
        IsPad(c) == c = Byte(PAD_CHAR)
        symbols == SelectSeq(text, IsSymbol)
        pads == SelectSeq(text, IsPad)
    IN  [ok |-> Len(pads) = PadCount(Len(symbols)),
         data |-> [i \in 1..Len(symbols) |-> Tail(symbols[i])]]

\* The items the query on TimestampIndex with ScanIndexForward=False and
\* Limit=1 may return: those with the greatest timestamp_ms (the index does
\* not order items of equal timestamp_ms).
Latest(items) ==
    {i \in 1..Len(items) :
        \A j \in 1..Len(items) : items[j].timestamp_ms <= items[i].timestamp_ms}

\* upload_vault(common_name): t is the time of the uploading machine.  uuid
\* is the item's sort key; blob keeps the bytes that were read from the file.
upload_vault(t) ==
    /\ Len(table) < MaxUploads
    /\ IF ~exists
       THEN /\ result' = Res("upload_vault", "", "", "DynamoDBServiceError",
                             "Unexpected error during upload: ", "None",
                             NoValue, {"get_encrypted_vault"})
            /\ UNCHANGED table
       ELSE /\ table' = Append(table,
                           [sk |-> Len(table) + 1, timestamp_ms |-> t,
                            vault_data |-> b64encode(file), blob |-> file])
            /\ result' = Res("upload_vault", "", "", "None", "", "True",
                             NoValue, {"get_encrypted_vault", "put_item"})
    /\ UNCHANGED <<exists, file, entropy, vault_data, disk, invocation>>
    /\ UNCHANGED credvars

\* download_latest_vault(): i is the item the query returns.
download_latest_vault(i) ==
    /\ IF table = <<>>
       THEN /\ i = 0
            /\ result' = Res("download_latest_vault", "", "", "None", "",
                             "False", NoValue, {"query"})
            /\ UNCHANGED <<exists, file, disk>>
       ELSE /\ i \in Latest(table)
            /\ IF table[i].vault_data = <<>>
               THEN /\ result' = Res("download_latest_vault", "", "", "None",
                                     "", "False", NoValue, {"query"})
                    /\ UNCHANGED <<exists, file, disk>>
               ELSE LET d == b64decode(table[i].vault_data) IN
                    IF ~d.ok
                    THEN /\ result' = Res("download_latest_vault", "", "",
                                          "DynamoDBServiceError",
                                          "Unexpected error during download: ",
                                          "None", NoValue, {"query"})
                         /\ UNCHANGED <<exists, file, disk>>
                    ELSE /\ exists' = TRUE
                         /\ file' = d.data
                         /\ disk' = Disk("sync", NoValue, "", FALSE)
                         /\ result' = Res("download_latest_vault", "", "",
                                          "None", "", "True", NoValue,
                                          {"query",
                                           "sync_replace_local_file_content"})
    /\ UNCHANGED <<entropy, vault_data, table, invocation>>
    /\ UNCHANGED credvars

\* Uploads and downloads, and the local commands that change the file
\* between them.
NextSync ==
    \/ \E t \in Clock : upload_vault(t)
    \/ \E i \in 0..MaxUploads : download_latest_vault(i)
    \/ \E p \in MasterPasswords : save_vault(p)
    \/ AddPasswordEntry("github", "Tr0ub4dor&3")
    \/ delete_vault
    \/ \E p \in MasterPasswords : SaveInterrupted(p, 0)

SpecSync == InitCred /\ [][NextSync]_vars

(***************************************************************************)
(* Whole runs of the CLI commands under BaseCommand.run                    *)
(* (cli/commands/base.py, add.py, delete.py, get.py, list.py, init.py,     *)
(* reset.py, pull.py, push.py)                                             *)
(***************************************************************************)
MaxCommandSaves == 3   \* number of saves the runs of one behaviour make

CanSaveCommand == entropy < 2 * MaxCommandSaves

RemoveOutcomes == {"ok", "OSError"}

\* input(...) at a confirmation prompt, and what the answer amounts to.
Prompt(confirmation) ==
    IF lower(confirmation) \in {"y", "yes"} THEN "input: yes" ELSE "input: no"

\* The last line a run prints.
OUT_NO_VAULT == "Validation error: No vault exists. Please run 'lox init' first."
OUT_UNEXPECTED == "An unexpected error occurred: "
OUT_INTERRUPTED == "Operation cancelled by user."
OUT_EXISTS == "already exists."
OUT_NOT_FOUND == "not found in the vault."
OUT_SAVED == "Password saved for"
OUT_DELETED == "deleted."
OUT_DELETE_CANCELLED == "Delete cancelled."
OUT_PASSWORD == "Password for"
OUT_NO_SERVICES == "No services stored in the vault."
OUT_SERVICES == "Stored services:"
OUT_VAULT_EXISTS == "Vault already exists. Use 'lox reset' to create a new vault."
OUT_CREATED == "Vault created successfully!"
OUT_RESET_CANCELLED == "Reset cancelled."
OUT_RESET_ERROR == "Error resetting vault: "
OUT_PULL_ERROR == "Error pulling from sync: "
OUT_PUSH_ERROR == "Error pushing to sync: "

\* In the runs below the outcome of a call the run does not make (a write
\* after a declined prompt, a prompt after a failed removal) is left at its
\* first value.

\* What run returns and prints last.
Exit(command, master_password, name, code, out, calls) ==
    Res(command, master_password, name, "None", out, code, NoValue, calls)

\* save_vault_data under run: the file after the call, and the end of the
\* run.  A failure is a VaultOperationError, which no command catches.
CommandSave(command, name, data, master_password, io, out, calls) ==
    IF io = "ok"
    THEN /\ CanSaveCommand
         /\ Written(data, master_password)
         /\ result' = Exit(command, master_password, name, "0", out,
                           calls \cup {"save_vault_data"})
    ELSE /\ WrittenOrNot(data, master_password, io)
         /\ result' = Exit(command, master_password, name, "4",
                           OUT_UNEXPECTED, calls \cup {"save_vault_data"})

\* The end of a run that stops at the load.
LoadExit(command, name, master_password, code) ==
    Exit(command, master_password, name, code,
         IF code = "2" THEN OUT_NO_VAULT ELSE OUT_UNEXPECTED,
         IF code = "2" THEN {} ELSE {"get_vault_data"})

\* AddCommand().run(args) with args.name = name.
RunAdd(name, master_password, io) ==
    /\ \E l \in {CommandLoad(exists, file, master_password)} :
         IF l.code # "None"
         THEN /\ result' = LoadExit("AddCommand", name, master_password, l.code)
              /\ UNCHANGED <<exists, file, entropy, disk>>
              /\ io = "ok"
         ELSE IF Has(l.data.services, name)
         THEN /\ result' = Exit("AddCommand", master_password, name, "1",
                                OUT_EXISTS, {"get_vault_data"})
              /\ UNCHANGED <<exists, file, entropy, disk>>
              /\ io = "ok"
         ELSE CommandSave("AddCommand", name,
                          [l.data EXCEPT !.services =
                              Append(@, <<name, [password |-> Generated(1)]>>)],
                          master_password, io, OUT_SAVED,
                          {"get_vault_data"})
    /\ UNCHANGED vault_data
    /\ UNCHANGED credvars
    /\ UNCHANGED runvars

\* A run of "lox delete" that deletes whatever the answer is.
RunDelete_ignores_answer(name, master_password, confirmation, io) ==
    /\ \E l \in {CommandLoad(exists, file, master_password)} :
         IF l.code # "None"
         THEN /\ result' = LoadExit("DeleteCommand", name, master_password,
                                    l.code)
              /\ UNCHANGED <<exists, file, entropy, disk>>
              /\ io = "ok"
         ELSE IF ~Has(l.data.services, name)
         THEN /\ result' = Exit("DeleteCommand", master_password, name, "1",
                                OUT_NOT_FOUND, {"get_vault_data"})
              /\ UNCHANGED <<exists, file, entropy, disk>>
              /\ io = "ok"
         ELSE CommandSave("DeleteCommand", name,
                          [l.data EXCEPT !.services = Without(@, name)],
                          master_password, io,
                          IF lower(confirmation) \notin {"y", "yes"}
                          THEN OUT_DELETE_CANCELLED ELSE OUT_DELETED,
                          {"get_vault_data", Prompt(confirmation)})
    /\ UNCHANGED vault_data
    /\ UNCHANGED credvars
    /\ UNCHANGED runvars

\* DeleteCommand().run(args): confirmation is the answer to the prompt.
RunDelete(name, master_password, confirmation, io) ==
    /\ \E l \in {CommandLoad(exists, file, master_password)} :
         IF l.code # "None"
         THEN /\ result' = LoadExit("DeleteCommand", name, master_password,
                                    l.code)
              /\ UNCHANGED <<exists, file, entropy, disk>>
              /\ io = "ok"
         ELSE IF ~Has(l.data.services, name)
         THEN /\ result' = Exit("DeleteCommand", master_password, name, "1",
                                OUT_NOT_FOUND, {"get_vault_data"})
              /\ UNCHANGED <<exists, file, entropy, disk>>
              /\ io = "ok"
         ELSE IF lower(confirmation) \notin {"y", "yes"}
         THEN /\ result' = Exit("DeleteCommand", master_password, name, "0",
                                OUT_DELETE_CANCELLED,
                                {"get_vault_data", Prompt(confirmation)})
              /\ UNCHANGED <<exists, file, entropy, disk>>
              /\ io = "ok"
         ELSE CommandSave("DeleteCommand", name,
                          [l.data EXCEPT !.services = Without(@, name)],
                          master_password, io, OUT_DELETED,
                          {"get_vault_data", Prompt(confirmation)})
    /\ UNCHANGED vault_data
    /\ UNCHANGED credvars
    /\ UNCHANGED runvars

\* GetCommand().run(args)
RunGet(name, master_password) ==
    /\ \E l \in {CommandLoad(exists, file, master_password)} :
         result' =
             IF l.code # "None"
             THEN LoadExit("GetCommand", name, master_password, l.code)
             ELSE IF ~Has(l.data.services, name)
             THEN Exit("GetCommand", master_password, name, "1",
                       OUT_NOT_FOUND, {"get_vault_data"})
             ELSE Exit("GetCommand", master_password, name, "0",
                       OUT_PASSWORD, {"get_vault_data"})
    /\ UNCHANGED <<exists, file, entropy, vault_data, disk>>
    /\ UNCHANGED credvars
    /\ UNCHANGED runvars

\* ListCommand().run(args): execute has no return after the listing.
RunList(master_password) ==
    /\ \E d \in {GetVaultData(exists, file, master_password)} :
         result' =
             IF ~exists
             THEN LoadExit("ListCommand", "", master_password, "2")
             ELSE IF d.exc # "None"
             THEN LoadExit("ListCommand", "", master_password, "4")
             ELSE IF "services" \notin DOMAIN d.value
                     \/ d.value.services = <<>>
             THEN Exit("ListCommand", master_password, "", "0",
                       OUT_NO_SERVICES, {"get_vault_data"})
             ELSE Exit("ListCommand", master_password, "", "None",
                       OUT_SERVICES, {"get_vault_data"})
    /\ UNCHANGED <<exists, file, entropy, vault_data, disk>>
    /\ UNCHANGED credvars
    /\ UNCHANGED runvars

\* InitCommand().run(args) once the file is known to be absent: interrupted
\* tells whether the user interrupts the password prompt, io how the write of
\* the file ends.
InitRun(command, master_password, interrupted, io, calls) ==
    IF interrupted
    THEN /\ result' = Exit(command, "", "", "130", OUT_INTERRUPTED, calls)
         /\ UNCHANGED <<entropy>>
         /\ exists' = FALSE /\ file' = <<>> /\ disk' = Absent
    ELSE IF io = "ok"
    THEN /\ CanSaveCommand
         /\ Written(EMPTY_VAULT, master_password)
         /\ result' = Exit(command, master_password, "", "0", OUT_CREATED,
                           calls \cup {"initialize_vault"})
    ELSE /\ exists' = (io = "write")
         /\ file' = <<>>
         /\ disk' = IF io = "write" THEN Disk("partial", NoValue, "", FALSE)
                    ELSE Absent
         /\ UNCHANGED entropy
         /\ result' = Exit(command, master_password, "", "4", OUT_UNEXPECTED,
                           calls \cup {"initialize_vault"})

RunInit(master_password, interrupted, io) ==
    /\ exists => ~interrupted
    /\ (exists \/ interrupted) => io = "ok"
    /\ IF exists
       THEN /\ result' = Exit("InitCommand", "", "", "1", OUT_VAULT_EXISTS, {})
            /\ UNCHANGED <<exists, file, entropy, disk>>
       ELSE InitRun("InitCommand", master_password, interrupted, io, {})
    /\ UNCHANGED vault_data
    /\ UNCHANGED credvars
    /\ UNCHANGED runvars

\* ResetCommand().run(args): removal is how os.remove ends.  The except
\* clause of execute prints the error and execute ends without a return.
RunReset(confirmation, master_password, interrupted, removal, io) ==
    /\ (~exists \/ lower(confirmation) \notin {"y", "yes"})
           => (removal = "ok" /\ ~interrupted)
    /\ removal # "ok" => ~interrupted
    /\ (removal # "ok" \/ interrupted) => io = "ok"
    /\ IF ~exists
       THEN /\ result' = Exit("ResetCommand", "", "", "1", MSG_NO_VAULT, {})
            /\ UNCHANGED <<exists, file, entropy, disk>>
       ELSE IF lower(confirmation) \notin {"y", "yes"}
       THEN /\ result' = Exit("ResetCommand", "", "", "0",
                              OUT_RESET_CANCELLED, {Prompt(confirmation)})
            /\ UNCHANGED <<exists, file, entropy, disk>>
       ELSE IF removal # "ok"
       THEN /\ result' = Exit("ResetCommand", "", "", "None",
                              OUT_RESET_ERROR,
                              {Prompt(confirmation), "os.remove: OSError"})
            /\ UNCHANGED <<exists, file, entropy, disk>>
       ELSE InitRun("ResetCommand", master_password, interrupted, io,
                    {Prompt(confirmation), "os.remove"})
    /\ UNCHANGED vault_data
    /\ UNCHANGED credvars
    /\ UNCHANGED runvars

\* PullCommand().run(args): DynamoDBService has no get_last_item_query; the
\* AttributeError is caught by execute.
RunPull ==
    /\ result' = Exit("PullCommand", "", "", "1", OUT_PULL_ERROR, {})
    /\ UNCHANGED <<exists, file, entropy, vault_data, disk>>
    /\ UNCHANGED credvars
    /\ UNCHANGED runvars

\* PushCommand().run(args): DynamoDBService has no put_item.
RunPush ==
    /\ result' = Exit("PushCommand", "", "", "1", OUT_PUSH_ERROR, {})
    /\ UNCHANGED <<exists, file, entropy, vault_data, disk>>
    /\ UNCHANGED credvars
    /\ UNCHANGED runvars

(***************************************************************************)
(* The handlers of the older command line (core/handlers.py, core/core.py) *)
(***************************************************************************)
LEGACY_EMPTY_VAULT == [services |-> <<>>]

OUT_ERROR == "Error: "
OUT_DELETE_FAILED == "Failed to delete password for"
OUT_CREATE_FAILED == "Failed to create vault. Please try again."

\* What a handler prints last and how it ends: it returns None, or leaves
\* through sys.exit(1) or an exception.
Handled(handler, master_password, name, exc, out, calls) ==
    Res(handler, master_password, name, exc, out, "None", NoValue, calls)

\* handle_delete_command(args) with args.name = name; confirmation is the
\* answer to the prompt, io how the write of save_vault ends.
handle_delete_command(name, master_password, confirmation, io) ==
    /\ \E r \in {StorageLoad(exists, file, master_password, "ok")} :
         IF r.exc # "None"
         THEN /\ result' = Handled("handle_delete_command", master_password,
                                   name, "None", OUT_ERROR, {"get_vault_data"})
              /\ UNCHANGED <<exists, file, entropy, disk>>
              /\ io = "ok"
         ELSE IF "services" \notin DOMAIN r.value
         THEN /\ result' = Handled("handle_delete_command", master_password,
                                   name, "SystemExit", OUT_UNEXPECTED,
                                   {"get_vault_data"})
              /\ UNCHANGED <<exists, file, entropy, disk>>
              /\ io = "ok"
         ELSE IF ~Has(r.value.services, name)
         THEN /\ result' = Handled("handle_delete_command", master_password,
                                   name, "None", OUT_NOT_FOUND,
                                   {"get_vault_data"})
              /\ UNCHANGED <<exists, file, entropy, disk>>
              /\ io = "ok"
         ELSE IF lower(confirmation) \notin {"y", "yes"}
         THEN /\ result' = Handled("handle_delete_command", master_password,
                                   name, "None", OUT_DELETE_CANCELLED,
                                   {"get_vault_data", Prompt(confirmation)})
              /\ UNCHANGED <<exists, file, entropy, disk>>
              /\ io = "ok"
         ELSE /\ IF io = "ok"
                 THEN /\ CanSaveCommand
                      /\ Written([r.value EXCEPT !.services = Without(@, name)],
                                 master_password)
                 ELSE WrittenOrNot([r.value EXCEPT
                                       !.services = Without(@, name)],
                                   master_password, io)
              /\ result' = Handled("handle_delete_command", master_password,
                                   name, "None",
                                   IF io = "ok" THEN OUT_DELETED
                                   ELSE OUT_DELETE_FAILED,
                                   {"get_vault_data", Prompt(confirmation),
                                    "save_vault_data"})
    /\ UNCHANGED vault_data
    /\ UNCHANGED credvars
    /\ UNCHANGED runvars

\* handle_get_command(args)
handle_get_command(name, master_password) ==
    /\ \E r \in {StorageLoad(exists, file, master_password, "ok")} :
         result' =
             IF r.exc # "None"
             THEN Handled("handle_get_command", master_password, name, "None",
                          OUT_ERROR, {"get_vault_data"})
             ELSE IF "services" \notin DOMAIN r.value
             THEN Handled("handle_get_command", master_password, name,
                          "SystemExit", OUT_UNEXPECTED, {"get_vault_data"})
             ELSE IF ~Has(r.value.services, name)
             THEN Handled("handle_get_command", master_password, name, "None",
                          OUT_NOT_FOUND, {"get_vault_data"})
             ELSE Handled("handle_get_command", master_password, name, "None",
                          OUT_PASSWORD, {"get_vault_data"})
    /\ UNCHANGED <<exists, file, entropy, vault_data, disk>>
    /\ UNCHANGED credvars
    /\ UNCHANGED runvars

\* handle_reset_command(): os.remove and then handle_init_command(), whose
\* save_vault returns False when the write fails.
handle_reset_command(confirmation, master_password, interrupted, removal, io) ==
    /\ (~exists \/ lower(confirmation) \notin {"y", "yes"})
           => (removal = "ok" /\ ~interrupted)
    /\ removal # "ok" => ~interrupted
    /\ (removal # "ok" \/ interrupted) => io = "ok"
    /\ IF ~exists
       THEN /\ result' = Handled("handle_reset_command", "", "", "None",
                                 MSG_NO_VAULT, {})
            /\ UNCHANGED <<exists, file, entropy, disk>>
       ELSE IF lower(confirmation) \notin {"y", "yes"}
       THEN /\ result' = Handled("handle_reset_command", "", "", "None",
                                 OUT_RESET_CANCELLED, {Prompt(confirmation)})
            /\ UNCHANGED <<exists, file, entropy, disk>>
       ELSE IF removal # "ok"
       THEN /\ result' = Handled("handle_reset_command", "", "", "None",
                                 OUT_RESET_ERROR,
                                 {Prompt(confirmation), "os.remove: OSError"})
            /\ UNCHANGED <<exists, file, entropy, disk>>
       ELSE IF interrupted
       THEN /\ result' = Handled("handle_reset_command", "", "",
                                 "KeyboardInterrupt", "",
                                 {Prompt(confirmation), "os.remove"})
            /\ exists' = FALSE /\ file' = <<>> /\ disk' = Absent
            /\ UNCHANGED entropy
       ELSE IF io = "ok"
       THEN /\ CanSaveCommand
            /\ Written(LEGACY_EMPTY_VAULT, master_password)
            /\ result' = Handled("handle_reset_command", master_password, "",
                                 "None", OUT_CREATED,
                                 {Prompt(confirmation), "os.remove",
                                  "initialize_vault"})
       ELSE /\ exists' = (io = "write")
            /\ file' = <<>>
            /\ disk' = IF io = "write" THEN Disk("partial", NoValue, "", FALSE)
                       ELSE Absent
            /\ UNCHANGED entropy
            /\ result' = Handled("handle_reset_command", master_password, "",
                                 "None", OUT_CREATE_FAILED,
                                 {Prompt(confirmation), "os.remove",
                                  "initialize_vault"})
    /\ UNCHANGED vault_data
    /\ UNCHANGED credvars
    /\ UNCHANGED runvars

NextCli ==
    \/ \E n \in Names, p \in MasterPasswords, io \in SaveOutcomes :
           RunAdd(n, p, io)
    \/ \E n \in Names, p \in MasterPasswords, c \in Confirmations,
          io \in SaveOutcomes : RunDelete(n, p, c, io)
    \/ \E n \in Names, p \in MasterPasswords : RunGet(n, p)
    \/ \E p \in MasterPasswords : RunList(p)
    \/ \E p \in MasterPasswords, x \in BOOLEAN, io \in SaveOutcomes :
           RunInit(p, x, io)
    \/ \E c \in Confirmations, p \in MasterPasswords, x \in BOOLEAN,
          rm \in RemoveOutcomes, io \in SaveOutcomes : RunReset(c, p, x, rm, io)
    \/ RunPull
    \/ RunPush
    \/ \E n \in Names, p \in MasterPasswords, c \in Confirmations,
          io \in SaveOutcomes : handle_delete_command(n, p, c, io)
    \/ \E n \in Names, p \in MasterPasswords : handle_get_command(n, p)
    \/ \E c \in Confirmations, p \in MasterPasswords, x \in BOOLEAN,
          rm \in RemoveOutcomes, io \in SaveOutcomes :
           handle_reset_command(c, p, x, rm, io)

SpecCli == InitCred /\ [][NextCli]_vars

\* Saved vault files, their strict prefixes, and loads of them.
MaxFileLen == 64       \* no saved file of the model is longer

NextPrefix ==
    \/ \E p \in MasterPasswords : save_vault(p)
    \/ AddPasswordEntry("github", "Tr0ub4dor&3")
    \/ \E n \in 0..MaxFileLen : KeepPrefix(n)
    \/ \E p \in MasterPasswords : load_vault(p)

SpecPrefix == InitCred /\ [][NextPrefix]_vars

(***************************************************************************)
(* Properties                                                              *)
(***************************************************************************)
IsVaultFileOp(op) == op \in {"load_vault", "get_encrypted_vault", "get_vault_data"}

\* C1: a load_vault of a file written by save_vault(v, p), with the same
\* passphrase p, raises nothing and returns a dict equal to v: the same
\* service names, the same record for each name and the same metadata.
C1_RoundTrip ==
    (result.op = "load_vault" /\ disk.origin = "save" /\ result.pw = disk.pw)
        => /\ result.exc = "None"
           /\ DictEq(result.value, disk.data)
           /\ \A n \in Names :
                 Has(Services(result.value), n) = Has(Services(disk.data), n)

\* The scenario: initialize, add "github", save, reload.
C1_Witness ==
    /\ result.op = "load_vault"
    /\ disk.origin = "save"
    /\ result.pw = disk.pw
    /\ disk.pw = "correct-horse-battery-staple"
    /\ Keys(Services(result.value)) = <<"github">>
    /\ Get(Services(result.value), "github").password = "Tr0ub4dor&3"
    /\ "metadata" \in DOMAIN result.value

\* C2: a load_vault of a file written by save_vault(v, p1), with another
\* passphrase p2, raises VaultOperationError, returns no vault value and
\* leaves the file as it was.
C2_WrongPassphrase ==
    [][(result'.op = "load_vault" /\ disk.origin = "save"
            /\ result'.pw # disk.pw)
        => /\ result'.exc = "VaultOperationError"
           /\ result'.value = NoValue
           /\ result'.ret = "None"
           /\ file' = file
           /\ exists' = exists]_vars

C2_Witness ==
    /\ result.op = "load_vault"
    /\ disk.origin = "save"
    /\ result.pw # disk.pw
    /\ result.exc = "VaultOperationError"

\* C3: whenever load_vault fails on an existing file (the decryption fails
\* or the decrypted text is not JSON), the error carries the message that
\* the master password may be incorrect or the file is corrupted.
C3_DecryptMessage ==
    (result.op = "load_vault" /\ exists /\ result.exc # "None")
        => result.msg = MSG_DECRYPT

\* C4: after a valid save, once bytes are appended to or altered in the
\* ciphertext region of the file, load_vault with the right passphrase
\* raises and returns no vault value.
C4_CorruptionDetected ==
    (result.op = "load_vault" /\ disk.origin \in {"appended", "altered"}
            /\ result.pw = disk.pw)
        => (result.exc # "None" /\ result.value = NoValue)

\* C5: a save_vault over a file written by an earlier save never reuses the
\* salt stored in that file: the salt, the ciphertext and so the bytes of
\* the file all change, and when the value and the passphrase are those of
\* the earlier save, the new file loads to the same value as the old one.
C5_SaltFreshness ==
    [][(result'.op = "save_vault" /\ exists /\ disk.origin = "save")
        => /\ SaltOf(file') # SaltOf(file)
           /\ CiphertextOf(file') # CiphertextOf(file)
           /\ file' # file
           /\ disk'.resaved =>
                 LoadVault(TRUE, file', disk.pw) = LoadVault(TRUE, file, disk.pw)
           /\ disk'.resaved => LoadVault(TRUE, file', disk.pw).exc = "None"]_vars

C5_Witness ==
    /\ result.op = "save_vault"
    /\ disk.origin = "save"
    /\ disk.resaved

\* C6: a save_vault, whether or not it is interrupted between its writes,
\* leaves either the previous file untouched or a complete file that loads
\* to the saved value.
C6_AtomicSave ==
    [][(result'.op \in {"save_vault", "save_vault interrupted"})
        => \/ (exists' = exists /\ file' = file)
           \/ /\ exists'
              /\ \E p \in MasterPasswords :
                    /\ LoadVault(TRUE, file', p).exc = "None"
                    /\ DictEq(LoadVault(TRUE, file', p).value, vault_data)
       ]_vars

\* C7: initialize_vault on an existing file returns False, raises nothing
\* and leaves the file's bytes unchanged; on an absent file it returns True
\* and the file then loads, with the same passphrase, to a vault with an
\* empty services map.  The init command does not call initialize_vault
\* when the vault exists.
C7_InitNeverOverwrites ==
    [][/\ result'.op = "initialize_vault" =>
            IF exists
            THEN /\ result'.ret = "False"
                 /\ result'.exc = "None"
                 /\ exists'
                 /\ file' = file
            ELSE /\ result'.ret = "True"
                 /\ exists'
                 /\ LoadVault(TRUE, file', result'.pw).exc = "None"
                 /\ "services" \in DOMAIN LoadVault(TRUE, file', result'.pw).value
                 /\ LoadVault(TRUE, file', result'.pw).value.services = <<>>
       /\ (result'.op = "InitCommand" /\ exists) =>
            /\ "initialize_vault" \notin result'.calls
            /\ exists'
            /\ file' = file
      ]_vars

C7_Witness ==
    /\ result.op = "initialize_vault"
    /\ result.ret = "False"
    /\ disk.origin = "save"
    /\ Services(disk.data) # <<>>

\* C8: while the vault file is absent, load_vault, get_encrypted_vault and
\* get_vault_data raise VaultNotFoundError and nothing else.
C8_NotFound ==
    (~exists /\ IsVaultFileOp(result.op)) => result.exc = "VaultNotFoundError"

\* get_vault_data on a vault that was written and then removed.
C8_Witness ==
    /\ ~exists
    /\ entropy > 1
    /\ result.op = "get_vault_data"
    /\ result.exc = "VaultNotFoundError"

C10_UpdateMissingRaises ==
    [][result'.op = "update_password_entry" =>
        LET items == Services(vault_data)
            after == Services(vault_data')
        IN  IF ~Has(items, result'.name)
            THEN result'.exc = "VaultError" /\ vault_data' = vault_data
            ELSE /\ result'.exc = "None"
                 /\ DOMAIN vault_data' = DOMAIN vault_data
                 /\ Keys(after) = Keys(items)
                 /\ \A i \in 1..Len(items) :
                       IF items[i][1] = result'.name
                       THEN /\ after[i][2].password = result'.pw
                            /\ DOMAIN after[i][2] = DOMAIN items[i][2]
                            /\ \A k \in DOMAIN items[i][2] \ {"password"} :
                                  after[i][2][k] = items[i][2][k]
                       ELSE after[i] = items[i]
                 /\ "metadata" \in DOMAIN vault_data =>
                       vault_data'.metadata = vault_data.metadata]_vars

C10_Witness ==
    /\ result.op = "update_password_entry"
    /\ result.exc = "VaultError"
    /\ ~Has(Services(vault_data), result.name)
    /\ Services(vault_data) # <<>>

\* C11: delete_password_entry never raises.  When the name is a service key
\* it returns True, the name is no longer a key and every other entry is as
\* before; when it is not, it returns False and the dict is unchanged; a
\* delete right after a delete of the same name returns False.
C11_DeleteReturnsPresence ==
    [][result'.op = "delete_password_entry" =>
        LET items == Services(vault_data)
            after == Services(vault_data')
            n == result'.name
        IN
        /\ result'.exc = "None"
        /\ IF Has(items, n)
           THEN /\ result'.ret = "True"
                /\ ~Has(after, n)
                /\ Len(after) = Len(items) - 1
                /\ \A m \in Names \ {n} :
                       /\ Has(after, m) <=> Has(items, m)
                       /\ Has(items, m) => Get(after, m) = Get(items, m)
                /\ DOMAIN vault_data' = DOMAIN vault_data
                /\ "metadata" \in DOMAIN vault_data =>
                       vault_data'.metadata = vault_data.metadata
           ELSE /\ result'.ret = "False"
                /\ vault_data' = vault_data
        /\ (result.op = "delete_password_entry" /\ result.name = n)
               => result'.ret = "False"
    ]_vars

\* C11 witness: a delete has removed one entry and left another.
C11_Witness ==
    /\ result.op = "delete_password_entry"
    /\ result.ret = "True"
    /\ ~Has(Services(vault_data), result.name)
    /\ Services(vault_data) # <<>>

\* C12: get_password and get_service_names raise nothing and leave the dict
\* as it is; get_password returns None for a name that is not a service key
\* and the stored password for one that is; the operations that raise are
\* the add of a name that is a key and the update of one that is not.
C12_ReadsNeverRaise ==
    [][LET items == Services(vault_data)
           n == result'.name
       IN
       /\ result'.op = "get_password" =>
              /\ vault_data' = vault_data
              /\ result'.exc = "None"
              /\ result'.ret = IF Has(items, n) THEN Get(items, n).password
                               ELSE "None"
       /\ result'.op = "get_service_names" =>
              /\ vault_data' = vault_data
              /\ result'.exc = "None"
              /\ Len(result'.value.list) = Len(items)
              /\ \A m \in Names :
                     Has(items, m) <=>
                         \E i \in 1..Len(items) : result'.value.list[i] = m
       /\ result'.exc # "None" <=>
              \/ result'.op = "add_password_entry" /\ Has(items, n)
              \/ result'.op = "update_password_entry" /\ ~Has(items, n)
    ]_vars

\* C12 witness: get_password has returned a password that an add or an
\* update stored.
C12_Witness ==
    /\ result.op = "get_password"
    /\ result.ret = "Tr0ub4dor&3"
    /\ Has(Services(vault_data), result.name)

\* Position of a backend in the preference order.
Rank(backend) ==
    CHOOSE i \in 1..Len(_backend_preference) : _backend_preference[i] = backend

\* The preference order of the manager an outcome belongs to.
Preference(manager) ==
    IF manager = LEGACY THEN _backend_preference ELSE AWS_backend_preference

\* The store calls of an outcome that succeeded.
Succeeded(calls) ==
    {i \in 1..Len(calls) : calls[i][1] = "store" /\ calls[i][3] = "ok"}

\* C13: store calls the backends in the preference order keyring, file,
\* environment, starting with the first and skipping none; once a store on a
\* backend has succeeded no backend of lower preference is called, the
\* operation returns True and _used_backend is that backend; when the store
\* on the first backend fails, the second backend is called.
C13_StoreOrder ==
    outcome.op = "store_credentials" =>
        LET calls == outcome.calls
            pref == Preference(outcome.manager)
        IN
        /\ calls # <<>> /\ calls[1][2] = pref[1]
        /\ \A i \in 1..(Len(calls) - 1) :
               \/ Rank(calls[i + 1][2]) = Rank(calls[i][2])
               \/ Rank(calls[i + 1][2]) = Rank(calls[i][2]) + 1
        /\ \A i \in Succeeded(calls) :
               /\ \A j \in (i + 1)..Len(calls) : calls[j][2] = calls[i][2]
               /\ outcome.exc = "None"
               /\ outcome.ret = "True"
               /\ used_backend[outcome.manager] = calls[i][2]
        /\ calls[1][3] # "ok" =>
               \E j \in 2..Len(calls) : calls[j][2] = pref[2]

\* The record a backend holds: the parsed text of the keyring entry or of
\* the file; the environment holds three variables and no record.
Persisted(backend) ==
    LET text == IF backend = KEYRING THEN keyring_password
                ELSE IF backend = ENV_FILE THEN env_file
                ELSE NoValue
    IN  IF text # NoValue /\ text.kind = "object" THEN PyDict(text.members)
        ELSE NoValue

\* C14: when store has returned True through backend B, the record B holds
\* has storage_backend equal to B's identifier.
C14_SelfDescribing ==
    (outcome.op = "store_credentials" /\ outcome.ret = "True") =>
        LET b == used_backend[outcome.manager] IN
        /\ Persisted(b) # NoValue
        /\ DictGet(Persisted(b).v, "storage_backend", "None") = b

\* The record with both key fields that a backend holds, if it holds one:
\* for the environment, the three variables.
Held(backend) ==
    IF backend = FALLBACK
    THEN IF Truthy(environ.AWS_ACCESS_KEY_ID)
            /\ Truthy(environ.AWS_SECRET_ACCESS_KEY)
         THEN PyDict([access_key |-> environ.AWS_ACCESS_KEY_ID,
                      secret_key |-> environ.AWS_SECRET_ACCESS_KEY,
                      region |-> environ.AWS_DEFAULT_REGION])
         ELSE NoValue
    ELSE IF /\ Persisted(backend) # NoValue
            /\ Truthy(DictGet(Persisted(backend).v, "access_key", "None"))
            /\ Truthy(DictGet(Persisted(backend).v, "secret_key", "None"))
    THEN Persisted(backend)
    ELSE NoValue

\* A returned value is the given record: the dict itself, or the tuple of
\* its access key, secret key and region.
IsRecord(value, record) ==
    /\ value # NoValue
    /\ record # NoValue
    /\ IF value.type = "tuple"
       THEN value.v.items = <<record.v.access_key, record.v.secret_key,
                              DictGet(record.v, "region", "us-east-1")>>
       ELSE value.type = "dict" /\ value.v = record.v

IsRetrieve(op) == op \in {"get_credentials", "retrieve_credentials"}

\* C15: when _used_backend is set and that backend holds a record, a
\* retrieve whose calls on that backend go through returns that record and
\* calls no other backend.
C15_StickyAffinity ==
    [][(/\ IsRetrieve(outcome'.op)
        /\ used_backend[outcome'.manager] # "None"
        /\ Held(used_backend[outcome'.manager]) # NoValue
        /\ \A i \in 1..Len(outcome'.calls) :
               outcome'.calls[i][2] = used_backend[outcome'.manager]
                   => outcome'.calls[i][3] = "ok")
       => /\ outcome'.exc = "None"
          /\ IsRecord(outcome'.value, Held(used_backend[outcome'.manager]))
          /\ \A i \in 1..Len(outcome'.calls) :
                 outcome'.calls[i][2] = used_backend[outcome'.manager]
    ]_vars

\* C16: when the keyring entry and the file are absent and the AWS
\* variables are not set, a retrieve raises nothing and returns None.
C16_NoneWhenEmpty ==
    [][(/\ IsRetrieve(outcome'.op)
        /\ keyring_password = NoValue
        /\ env_file = NoValue
        /\ environ = ENVIRON_UNSET)
       => /\ outcome'.exc = "None"
          /\ outcome'.ret = "None"
          /\ outcome'.value = NoValue
    ]_vars

\* The backends of a manager that hold a record, by position in its
\* preference order.
Holders(manager) ==
    {i \in 1..Len(Preference(manager)) :
        Held(Preference(manager)[i]) # NoValue}

\* The first backend in the manager's preference order that holds a record.
FirstHolder(manager) ==
    Preference(manager)[CHOOSE i \in Holders(manager) :
                            \A j \in Holders(manager) : i <= j]

\* C17: when _used_backend is unset or that backend holds no record, and
\* some backend holds one, a retrieve whose calls all go through returns
\* the record of the first backend in preference order that holds one, and
\* afterwards _used_backend is the storage_backend of that record if it is
\* the identifier of a backend.
C17_ProbeAndHeal ==
    [][(/\ IsRetrieve(outcome'.op)
        /\ \/ used_backend[outcome'.manager] = "None"
           \/ Held(used_backend[outcome'.manager]) = NoValue
        /\ Holders(outcome'.manager) # {}
        /\ \A i \in 1..Len(outcome'.calls) : outcome'.calls[i][3] = "ok")
       => LET record == Held(FirstHolder(outcome'.manager))
              stamp == DictGet(record.v, "storage_backend", "None")
          IN  /\ outcome'.exc = "None"
              /\ IsRecord(outcome'.value, record)
              /\ stamp \in StorageBackendValues =>
                     used_backend'[outcome'.manager] = stamp
    ]_vars

\* C18: when the store on every backend of the chain fails, store raises
\* the credential-storage error of its manager; store never returns False,
\* and it returns True only if some backend's store succeeded.
C18_AllFailRaises ==
    outcome.op = "store_credentials" =>
        /\ Succeeded(outcome.calls) = {} =>
               /\ outcome.exc = IF outcome.manager = LEGACY
                                THEN "CredentialStorageError"
                                ELSE "AWSCredentialError"
               /\ outcome.ret = "None"
               /\ \A i \in 1..Len(Preference(outcome.manager)) :
                      \E j \in 1..Len(outcome.calls) :
                          outcome.calls[j][2] = Preference(outcome.manager)[i]
        /\ outcome.ret # "False"
        /\ outcome.ret = "True" =>
               outcome.exc = "None" /\ Succeeded(outcome.calls) # {}

\* C18 witness: CredentialManager has called the keyring, the file and the
\* environment, each store has failed, and it has raised.
C18_Witness ==
    /\ outcome.op = "store_credentials"
    /\ outcome.manager = LEGACY
    /\ outcome.exc = "CredentialStorageError"
    /\ Len(outcome.calls) = 3
    /\ Succeeded(outcome.calls) = {}

\* C19: clear finishes without raising, has called the deletion of every
\* backend of the manager whatever the earlier deletions did, leaves
\* _used_backend unset, and returns True only if every deletion succeeded.
C19_ClearAll ==
    outcome.op = "clear_credentials" =>
        /\ outcome.exc = "None"
        /\ \A i \in 1..Len(Preference(outcome.manager)) :
               \E j \in 1..Len(outcome.calls) :
                   /\ outcome.calls[j][1] = "delete"
                   /\ outcome.calls[j][2] = Preference(outcome.manager)[i]
        /\ used_backend[outcome.manager] = "None"
        /\ outcome.ret = "True" =>
               \A j \in 1..Len(outcome.calls) : outcome.calls[j][3] = "ok"

\* The text the keyring entry or the file holds.
StoredText(backend) ==
    IF backend = KEYRING THEN keyring_password ELSE env_file

\* The backend holds text that is not a record of the current shape: not
\* JSON, not a JSON object, or an object without access_key or secret_key.
Malformed(backend) ==
    StoredText(backend) # NoValue /\ Held(backend) = NoValue

\* C20: when the keyring entry or the file holds text that is not a record
\* of the current shape, a retrieve whose calls all go through raises
\* nothing, does not return the value of that text, and after its call on
\* that backend goes on to another backend of the chain, if that backend is
\* not the last one.
C20_SkipsMalformed ==
    [][\A b \in {KEYRING, ENV_FILE} :
          (/\ IsRetrieve(outcome'.op)
           /\ Malformed(b)
           /\ \A j \in 1..Len(outcome'.calls) : outcome'.calls[j][3] = "ok")
          => LET calls == outcome'.calls
                 pref == Preference(outcome'.manager)
             IN
             /\ outcome'.exc = "None"
             /\ outcome'.value # Loaded(StoredText(b))
             /\ \A j \in 1..Len(calls) :
                    (calls[j][2] = b /\ Rank(b) < Len(pref))
                    => \E k \in (j + 1)..Len(calls) : calls[k][2] # b
    ]_vars

\* C21: whatever the calls on the backends do, a retrieve and a clear end
\* without raising, and a store raises nothing but the error that says every
\* backend failed.
C21_NeverSurfaced ==
    /\ (IsRetrieve(outcome.op) \/ outcome.op = "clear_credentials")
           => outcome.exc = "None"
    /\ outcome.op = "store_credentials"
           => outcome.exc \in {"None", "CredentialStorageError",
                               "AWSCredentialError"}

\* The vault file operations of Vault and the wrappers of VaultManager, in
\* both generations of the code.
VaultOps ==
    {"save_vault", "load_vault", "get_encrypted_vault",
     "sync_replace_local_file_content", "save_vault_data", "get_vault_data",
     "VaultManager.initialize_vault", "core.storage.save_vault",
     "core.storage.load_vault"}

\* C22: a vault file operation or wrapper either raises VaultNotFoundError or
\* VaultOperationError, or raises nothing, and then none of its calls on the
\* file failed and it returns its result, never False or None.
C22_FailuresRaised ==
    result.op \in VaultOps =>
        \/ result.exc \in {"VaultNotFoundError", "VaultOperationError"}
        \/ /\ result.exc = "None"
           /\ result.calls \cap {OPEN_FAILED, WRITE_FAILED} = {}
           /\ result.ret \in {"True", "value", "bytes"}

\* The run saved, and no run saved after it.
LastSaver(r) ==
    /\ invocation[r].order > 0
    /\ \A q \in Runs : invocation[q].order <= invocation[r].order

\* The run, which holds a loaded vault, comes to its end in this step.
Finishes(r) == invocation[r].pc = "loaded" /\ invocation'[r].pc = "done"

\* C23: a run that holds a loaded vault is never refused its save, whatever
\* has happened to the file since the run loaded it (an add always saves and
\* exits with 0, a delete exits with 0), and the file decrypts to exactly the
\* vault the last save wrote.
C23_LastWriterWins ==
    [][\A r \in Runs :
          /\ Finishes(r) =>
                 /\ invocation'[r].code = "0"
                 /\ invocation[r].command = "add" => invocation'[r].order > 0
          /\ LastSaver(r)' =>
                 LET d == GetVaultData(exists', file', invocation'[r].pw) IN
                 d.exc = "None" /\ d.value = invocation'[r].data
    ]_vars

\* Both runs have saved; the second loaded the file before the first saved,
\* and the entry the first added is not in the file.
C23_Witness ==
    \E r \in Runs, q \in Runs :
        /\ invocation[r].pc = "done" /\ invocation[q].pc = "done"
        /\ invocation[r].command = "add" /\ invocation[q].command = "add"
        /\ invocation[r].order = 1 /\ invocation[q].order = 2
        /\ invocation[q].seen = invocation[r].seen
        /\ Has(invocation[r].data.services, invocation[r].name)
        /\ LET d == GetVaultData(exists, file, invocation[q].pw) IN
           d.exc = "None" /\ ~Has(d.value.services, invocation[r].name)

\* C24: a download made when items have been put into the table returns
\* True and leaves exactly the bytes of the item put last in the vault file;
\* made when the table is empty, it returns False and leaves the file as it
\* was.
C24_DownloadsLastUpload ==
    [][result'.op = "download_latest_vault" =>
          IF table = <<>>
          THEN /\ result'.exc = "None" /\ result'.ret = "False"
               /\ exists' = exists /\ file' = file
          ELSE /\ result'.exc = "None" /\ result'.ret = "True"
               /\ exists' /\ file' = table[Len(table)].blob
    ]_vars

CommandRuns ==
    {"AddCommand", "DeleteCommand", "GetCommand", "ListCommand", "InitCommand",
     "ResetCommand", "PullCommand", "PushCommand"}

\* The runs that did what the command is for, and those the user cancelled
\* at a confirmation prompt.
RunSucceeded ==
    {OUT_SAVED, OUT_DELETED, OUT_PASSWORD, OUT_NO_SERVICES, OUT_SERVICES,
     OUT_CREATED}
RunCancelled == {OUT_DELETE_CANCELLED, OUT_RESET_CANCELLED}

\* C25: a run that neither succeeded nor was cancelled at a confirmation
\* prompt returns a non-zero exit code, and a run that returns 0 succeeded
\* or was cancelled at a confirmation prompt.
C25_ExitCodes ==
    result.op \in CommandRuns =>
        /\ result.msg \notin RunSucceeded \cup RunCancelled
               => result.ret \in {"1", "2", "3", "4", "130"}
        /\ result.ret = "0" => result.msg \in RunSucceeded \cup RunCancelled

\* C26: VaultManager.initialize_vault called while the vault file exists
\* leaves the file as it was.
C26_ManagerInitKeepsFile ==
    [][(result'.op = "VaultManager.initialize_vault" /\ exists) =>
           (exists' /\ file' = file)]_vars

FileKept == exists' = exists /\ file' = file

\* The name of the step's command is not in the vault the file holds.
NameMissing ==
    LET l == CommandLoad(exists, file, result'.pw) IN
    l.code = "None" /\ ~Has(l.data.services, result'.name)

\* C27: a delete or reset whose confirmation answer is not y or yes leaves
\* the vault file as it was, without a call of save_vault or os.remove; a
\* delete or get for a name that is not in the vault leaves the file as it
\* was, without a call of save_vault (stated as: a delete or get that changes
\* the file or calls save_vault was given a name the vault holds).
C27_DeclinedKeepsFile ==
    [][/\ (/\ result'.op \in {"DeleteCommand", "ResetCommand",
                              "handle_delete_command", "handle_reset_command"}
           /\ Prompt("n") \in result'.calls)
              => /\ FileKept
                 /\ result'.calls \cap {"save_vault_data", "initialize_vault",
                                        "os.remove", "os.remove: OSError"} = {}
       /\ (/\ result'.op \in {"DeleteCommand", "GetCommand",
                              "handle_delete_command", "handle_get_command"}
           /\ ~(FileKept /\ "save_vault_data" \notin result'.calls))
              => ~NameMissing
    ]_vars

\* A delete of a name the vault holds has been declined.
C27_Witness ==
    /\ result.op \in {"DeleteCommand", "handle_delete_command"}
    /\ Prompt("n") \in result.calls
    /\ exists
    /\ LET d == GetVaultData(exists, file, result.pw) IN
       d.exc = "None" /\ Has(d.value.services, result.name)

\* The access key, secret key and region of a stored or retrieved value.
Triple(x) ==
    IF x = NoValue THEN <<>>
    ELSE IF x.type = "tuple" THEN x.v.items
    ELSE <<DictGet(x.v, "access_key", "None"),
           DictGet(x.v, "secret_key", "None"),
           DictGet(x.v, "region", "None")>>

StoreSucceeded ==
    /\ outcome.op = "store_credentials"
    /\ outcome.exc = "None"
    /\ outcome.ret = "True"

\* C28: a retrieve that follows a successful store on the same manager
\* returns the access key, secret key and region that were stored, whatever
\* the backends hold from earlier and however their calls end.
C28_ReadYourWrites ==
    [][(/\ StoreSucceeded
        /\ IsRetrieve(outcome'.op)
        /\ outcome'.manager = outcome.manager)
           => /\ outcome'.exc = "None"
              /\ Triple(outcome'.value) = Triple(outcome.value)
    ]_vars

AllFailed ==
    /\ outcome.op = "store_credentials"
    /\ outcome.exc \in {"CredentialStorageError", "AWSCredentialError"}

\* C29: a store that raises the all-backends-failed error leaves the
\* manager's _used_backend and the contents of every backend as they were
\* before the call.
C29_FailedStoreLeavesNothing ==
    [][AllFailed' =>
           /\ used_backend' = used_backend
           /\ keyring_password' = keyring_password
           /\ env_file' = env_file
           /\ environ' = environ
    ]_vars

\* C30: load_vault of a vault file that holds only a strict prefix of a
\* saved file raises VaultOperationError and returns no vault, whatever the
\* passphrase.
C30_PrefixNeverLoads ==
    (result.op = "load_vault" /\ disk.origin = "prefix") =>
        /\ result.exc = "VaultOperationError"
        /\ result.ret = "None"
        /\ result.value = NoValue

\* A file cut inside its ciphertext has been loaded with the passphrase it
\* was saved under.
C30_Witness ==
    /\ result.op = "load_vault"
    /\ disk.origin = "prefix"
    /\ result.pw = disk.pw
    /\ Len(file) > 4 + SALT_LENGTH
    /\ result.exc = "VaultOperationError"

====
